---- MODULE Spec2Model ----
(***************************************************************************)
(* Model of the orchestration core of Image_chat: the AUTO-mode scheduler  *)
(* (workflow.js, state.js, the entry file's event handlers), the stream    *)
(* response decoder (api.js) and the bounded result feed (ui/gallery.js).  *)
(*                                                                         *)
(* JavaScript runs one task at a time: every action below is one event-    *)
(* loop task (a user event, the completion of a fetch, a timer) together   *)
(* with the synchronous code and microtasks it runs until the next await   *)
(* on the network or on a timer.                                           *)
(***************************************************************************)
EXTENDS Integers, Sequences, FiniteSets, Bags, TLC

\* ---------------------------------------------------------------- bounds
\* Number of async activations (AUTO loops, manual tasks) alive at once.
MaxLoops == 2
\* Upper end of the AUTO concurrency slider.
MaxSlider == 2
\* Cap on stats.total: an iteration begins only while total + N stays below.
MaxTotal == 3

Modes == {"edit", "generate"}

\* ------------------------------------------------------------- variables
VARIABLES
    autoState,           \* state.js autoState
    autoLoopController,  \* workflow.js autoLoopController
    currentMode,         \* state.js currentMode
    apiKey,              \* state.js apiKey ("" stands for null)
    selectedFile,        \* state.js selectedFile (TRUE: a FileList is held)
    modelSelect,         \* value of the model <select> of each mode
    btnDisabled,         \* submit button of each mode disabled
    loops,               \* bag of the live activations of startAutoLoop / manual runTaskOnce
    session              \* history: what the iterations of the session asked for and got

schedVars == <<autoState, autoLoopController, currentMode, apiKey, selectedFile,
               modelSelect, btnDisabled, loops, session>>

\* The stream response decoder (api.js editImageStream / generateImageStream,
\* the same code twice): one streamed response being decoded.
VARIABLES
    frames,          \* the lines the backend sends, each a kind of FrameKinds
    body,            \* the characters of the response body
    tail,            \* TRUE: the body ends with an image frame that lacks its newline
    fetchPc,         \* "fetch" (awaiting fetch), "reading", "done", "thrown"
    pos,             \* number of characters of the body read so far
    buffer,          \* let buffer
    totalReceived,   \* let totalReceived
    hasError,        \* let hasError
    errorMessage,    \* let errorMessage
    callbacks,       \* the records onProgressCallback was invoked with, in order
    result           \* the value the decoder returned

decVars == <<frames, body, tail, fetchPc, pos, buffer, totalReceived, hasError, errorMessage,
             callbacks, result>>

VARIABLES
    results,         \* per mode, the content of the results container
    arrived          \* history: per mode, what was appended since the container was last emptied

feedVars == <<results, arrived>>

\* The provider form: the provider <select> (State.currentProvider), the
\* model last chosen per provider and mode, the resolution <select> and the
\* AUTO concurrency slider of each mode, the timer startAutoLoop set last,
\* and what the configuration says of the google models.
VARIABLES currentProvider, providerModelPreferences, resolutionSelect, slider, timer,
          modelSupport

formVars == <<currentProvider, providerModelPreferences, resolutionSelect, slider, timer,
              modelSupport>>

\* Whether stopAutoLoop is recorded in the marks of the loops alive (constant
\* along a behaviour).
VARIABLE stopHistory

\* The configuration: the capability table initApp stored (State.appConfig,
\* by the name of the table), the page around it (where initApp is, the
\* message in the error box, whether a handler ended in an uncaught
\* exception), and the image fields of the FormData built last.
VARIABLES appConfig, page, formData

configVars == <<appConfig, page, formData>>

\* The manual tasks started, in the order of their start: the mode, the
\* number of images forwarded to the feed so far, and whether the task is
\* open, ended with success ("ok") or ended without ("failed").
VARIABLE streams

\* What the scheduler's actions leave alone.
notSchedVars == <<decVars, feedVars, formVars, stopHistory, configVars, streams>>

vars == <<schedVars, decVars, feedVars, formVars, stopHistory, configVars, streams>>

\* ------------------------------------------- config.js: the capability tables
Providers == {"google", "openrouter", "tuzi"}

\* The capability tables by name: the one GET /api/config answers with and
\* the one built into loadConfiguration.  "null" is no table.
ConfigNames == {"backend", "fallback"}

\* The ids that appConfig.providers[id] finds.
providersOf(config) == IF config \in ConfigNames THEN Providers ELSE {}

\* ------------------------------------------------------ state.js: autoState
InitAutoState ==
    [enabled |-> FALSE, running |-> FALSE, mode |-> "null",
     stats |-> [total |-> 0, success |-> 0, fail |-> 0],
     sessionImages |-> <<>>]

isAutoEnabled(as) == as.enabled
isAutoRunning(as) == as.running
getAutoStats(as) == as.stats

setAutoEnabled(as, enabled) == [as EXCEPT !.enabled = enabled]
setAutoRunning(as, running) == [as EXCEPT !.running = running]
setAutoMode(as, mode) == [as EXCEPT !.mode = mode]

incrementAutoTotalBy_PerIteration(as, count) == [as EXCEPT !.stats.total = @ + 1]
incrementAutoTotalBy(as, count) == [as EXCEPT !.stats.total = @ + count]

incrementAutoSuccessBy(as, count) == [as EXCEPT !.stats.success = @ + count]

incrementAutoFailBy_One(as, count) == [as EXCEPT !.stats.fail = @ + 1]
incrementAutoFailBy(as, count) == [as EXCEPT !.stats.fail = @ + count]

addSessionImage(as, imageUrl) == [as EXCEPT !.sessionImages = Append(@, imageUrl)]
clearSessionImages(as) == [as EXCEPT !.sessionImages = <<>>]

resetAutoStats_KeepImages(as) ==
    [as EXCEPT !.stats = [total |-> 0, success |-> 0, fail |-> 0]]
resetAutoStats(as) ==
    [as EXCEPT !.stats = [total |-> 0, success |-> 0, fail |-> 0],
               !.sessionImages = <<>>]

resetAutoState_KeepEnabled(as) ==
    [as EXCEPT !.running = FALSE, !.mode = "null",
               !.stats = [total |-> 0, success |-> 0, fail |-> 0],
               !.sessionImages = <<>>]
resetAutoState(as) ==
    [as EXCEPT !.enabled = FALSE, !.running = FALSE, !.mode = "null",
               !.stats = [total |-> 0, success |-> 0, fail |-> 0],
               !.sessionImages = <<>>]

\* ------------------------------------------- ui/forms: getTaskParams
\* A message is the sequence of its words (the source's texts are Chinese;
\* 'API Key' is spelled as in the source, "config" stands for the source's
\* two-character word for configuration).
MsgNoImage == <<"select an image first">>
MsgNoInstruction == <<"enter an edit instruction">>
MsgNoDescription == <<"enter an image description">>
MsgNoApiKey == <<"set the", "API Key", "first">>
\* fetch rejection or `HTTP <status>: <statusText>`
MsgNetwork == <<"HTTP 500: Internal Server Error">>
\* messages of error frames: whatever the backend reports
MsgBackend == <<"generation failed">>
MsgBackendApiKey == <<"API Key", "not valid">>
NoMessage == <<>>

\* String.prototype.includes, on words
includes(message, word) == \E i \in 1..Len(message) : message[i] = word

\* String.prototype.trim, on sequences of characters
RECURSIVE trim(_)
trim(text) ==
    IF text = <<>> THEN <<>>
    ELSE IF Head(text) = " " THEN trim(Tail(text))
    ELSE IF text[Len(text)] = " " THEN trim(SubSeq(text, 1, Len(text) - 1))
    ELSE text

\* The bundle getTaskParams returns (the fields the model follows), or the
\* error it throws.
NoParams == [prompt |-> <<>>, imageCount |-> 0, apiKey |-> "", selectedFile |-> FALSE]

getTaskParams_NoChecks(mode, file, instr, desc, count, key) ==
    [ok |-> TRUE, message |-> NoMessage,
     params |-> [prompt |-> trim(IF mode = "edit" THEN instr ELSE desc), imageCount |-> count,
                 apiKey |-> key, selectedFile |-> mode = "edit" /\ file]]
getTaskParams_ImageAlways(mode, file, instr, desc, count, key) ==
    IF ~file THEN [ok |-> FALSE, message |-> MsgNoImage, params |-> NoParams]
    ELSE IF trim(IF mode = "edit" THEN instr ELSE desc) = <<>>
    THEN [ok |-> FALSE,
          message |-> IF mode = "edit" THEN MsgNoInstruction ELSE MsgNoDescription,
          params |-> NoParams]
    ELSE IF key = "" THEN [ok |-> FALSE, message |-> MsgNoApiKey, params |-> NoParams]
    ELSE getTaskParams_NoChecks(mode, file, instr, desc, count, key)
getTaskParams(mode, file, instr, desc, count, key) ==
    IF mode = "edit"
    THEN IF ~file THEN [ok |-> FALSE, message |-> MsgNoImage, params |-> NoParams]
         ELSE IF trim(instr) = <<>> THEN [ok |-> FALSE, message |-> MsgNoInstruction, params |-> NoParams]
         ELSE IF key = "" THEN [ok |-> FALSE, message |-> MsgNoApiKey, params |-> NoParams]
         ELSE [ok |-> TRUE, message |-> NoMessage,
               params |-> [prompt |-> trim(instr), imageCount |-> count, apiKey |-> key,
                           selectedFile |-> file]]
    ELSE IF trim(desc) = <<>> THEN [ok |-> FALSE, message |-> MsgNoDescription, params |-> NoParams]
         ELSE IF key = "" THEN [ok |-> FALSE, message |-> MsgNoApiKey, params |-> NoParams]
         ELSE [ok |-> TRUE, message |-> NoMessage,
               params |-> [prompt |-> trim(desc), imageCount |-> count, apiKey |-> key,
                           selectedFile |-> FALSE]]

\* What a handler can find in the form controls it reads: the prompt field of
\* the mode (blank, or a padded text), the count field of the mode and the AUTO concurrency
\* slider of the mode (getAutoConcurrencyValue).  The user can change them
\* between any two tasks.
Texts == {<<" ">>, <<" ", "t", " ">>}
SliderValues == 1..MaxSlider
\* What the manual count field holds: a value the slider cannot hold, so
\* that the two are told apart in a request.
CountValues == {MaxSlider + 1}
Inputs == [text : Texts, count : CountValues]

TaskParams(mode, in) == getTaskParams(mode, selectedFile, in.text, in.text, in.count, apiKey)

\* runTaskOnce, lines 35-68 (81-110): the request it sends, given what
\* getTaskParams returned.  options.forceImageCount = 0 stands for undefined.
NoRequest == [prompt |-> <<>>, image_count |-> 0, api_key |-> "", image |-> FALSE]
requestOf_CountField(params, forceImageCount) ==
    [prompt |-> params.prompt, image_count |-> params.imageCount,
     api_key |-> params.apiKey, image |-> params.selectedFile]
requestOf(params, forceImageCount) ==
    [prompt |-> params.prompt,
     image_count |-> IF forceImageCount # 0 THEN forceImageCount ELSE params.imageCount,
     api_key |-> params.apiKey,
     image |-> params.selectedFile]

\* error.message.includes('API Key') || error.message.includes(<configuration>)
isFatalMessage(message) == includes(message, "API Key") \/ includes(message, "config")

\* ------------------------------------------------ activations (async frames)
\* One activation: where it is suspended ("request": awaiting runTaskOnce,
\* "delay": awaiting the timer), what started it, its mode; while a request
\* is awaited, the loop's local imageCount (AUTO) and the request sent.
\* mark is history: "stopped" once stopAutoLoop ran while the loop was
\* alive, "resumed" once such a loop began a further iteration.
Activation(pc, kind, mode, N, request, mark) ==
    [pc |-> pc, kind |-> kind, mode |-> mode, imageCount |-> N, request |-> request,
     mark |-> mark]

Live == BagToSet(loops)
AutoLoops == {a \in Live : a.kind = "auto"}
RequestsInFlight == {a \in AutoLoops : a.pc = "request"}
HasRoom == BagCardinality(loops) < MaxLoops

\* ----------------------------------------------------- session history
\* ended: how the session's loop left its while loop ("none" while it has not).
NoSession ==
    [clean |-> FALSE, sumK |-> 0, sumR |-> 0, sumSuccK |-> 0, sumFailK |-> 0,
     ended |-> "none"]
NewSession == [NoSession EXCEPT !.clean = TRUE]

NoteRequested(sess, k) == IF sess.clean THEN [sess EXCEPT !.sumK = @ + k] ELSE sess
NoteFailed(sess, k) == IF sess.clean THEN [sess EXCEPT !.sumFailK = @ + k] ELSE sess
NoteSucceeded(sess, k, r) ==
    IF sess.clean THEN [sess EXCEPT !.sumR = @ + r, !.sumSuccK = @ + k] ELSE sess

\* The ways out of the while loop: the loop-top test ("exit"), the break of
\* the catch ("fatal"), the break on a model <select> without value ("noModel").
Exits == {"exit", "fatal", "noModel"}
NoteEnded(sess, pc) == IF sess.clean /\ pc \in Exits THEN [sess EXCEPT !.ended = pc] ELSE sess

\* --------------------------------------------- workflow.js: startAutoLoop
\* Where the loop goes after the try/catch of an iteration: the delay, unless
\* the model <select> of the mode has no value.
AfterIteration(mode) == IF modelSelect[mode] = "" THEN "noModel" ELSE "delay"

\* The catch of lines 200-214: fail += N, break on a fatal message.
caught_NeverFatal(as, sess, mode, N, message) ==
    [as |-> incrementAutoFailBy(as, N),
     sess |-> NoteFailed(sess, N),
     pc |-> AfterIteration(mode),
     request |-> NoRequest]
caught_AlwaysFatal(as, sess, mode, N, message) ==
    [as |-> incrementAutoFailBy(as, N),
     sess |-> NoteFailed(sess, N),
     pc |-> "fatal",
     request |-> NoRequest]
caught(as, sess, mode, N, message) ==
    [as |-> incrementAutoFailBy(as, N),
     sess |-> NoteFailed(sess, N),
     pc |-> IF isFatalMessage(message) THEN "fatal" ELSE AfterIteration(mode),
     request |-> NoRequest]

\* Lines 159-173 and the catch: the head of one iteration, up to the await
\* of the request. N is the slider value read at line 159, in what
\* getTaskParams finds in the form when runTaskOnce calls it.
IterationBegin(as, sess, mode, N, in) ==
    LET as1 == incrementAutoTotalBy(as, N)
        sess1 == NoteRequested(sess, N)
        p == TaskParams(mode, in)
    IN IF p.ok
       THEN [as |-> as1, sess |-> sess1, pc |-> "request",
             request |-> requestOf(p.params, N)]
       ELSE caught(as1, sess1, mode, N, p.message)

\* Lines 175-214: what the loop does with the outcome of runTaskOnce.
\* outcome.kind: "ok" (result.success, outcome.r images), "failed"
\* (result.success = false, result.error = outcome.message), "thrown"
\* (rejected with outcome.message).
\* result.images.forEach(img => State.addSessionImage(img.download_url))
addSessionImages_First(as, r) ==
    [as EXCEPT !.sessionImages = @ \o [j \in 1..(IF r > 0 THEN 1 ELSE 0) |-> "download_url"]]
addSessionImages(as, r) ==
    [as EXCEPT !.sessionImages = @ \o [j \in 1..r |-> "download_url"]]

IterationEnd_BreakOnFailure(as, sess, mode, N, outcome) ==
    IF outcome.kind = "ok"
    THEN [as |-> addSessionImages(incrementAutoSuccessBy(as, outcome.r), outcome.r),
          sess |-> NoteSucceeded(sess, N, outcome.r),
          pc |-> AfterIteration(mode),
          request |-> NoRequest]
    ELSE [as |-> incrementAutoFailBy(as, N),
          sess |-> NoteFailed(sess, N),
          pc |-> "exit",
          request |-> NoRequest]

IterationEnd(as, sess, mode, N, outcome) ==
    IF outcome.kind = "ok"
    THEN [as |-> addSessionImages(incrementAutoSuccessBy(as, outcome.r), outcome.r),
          sess |-> NoteSucceeded(sess, N, outcome.r),
          pc |-> AfterIteration(mode),
          request |-> NoRequest]
    ELSE IF outcome.kind = "failed"
    THEN [as |-> incrementAutoFailBy(as, N),
          sess |-> NoteFailed(sess, N),
          pc |-> AfterIteration(mode),
          request |-> NoRequest]
    ELSE caught(as, sess, mode, N, outcome.message)

Outcomes(N) ==
    [kind : {"ok"}, r : 1..N, message : {NoMessage}]
    \cup [kind : {"failed"}, r : {0}, message : {MsgBackend, MsgBackendApiKey}]
    \cup [kind : {"thrown"}, r : {0}, message : {MsgNetwork}]

\* A loop-top test that never fails
LoopContinues_Always(as, ctl) == TRUE
\* The loop-top test of line 155.
LoopContinues(as, ctl) == isAutoRunning(as) /\ ctl.isRunning

\* The activation `a` of an AUTO loop moves on as the iteration step `it`
\* says; an exit runs lines 246-247 and the finally of handleEditImage /
\* handleGenerateImage (button enabled).
LoopMoves(a, N, it, mark) ==
    IF it.pc \in Exits
    THEN /\ loops' = loops (-) SetToBag({a})
         /\ autoLoopController' = [autoLoopController EXCEPT !.isRunning = FALSE]
         /\ btnDisabled' = [btnDisabled EXCEPT ![a.mode] = FALSE]
    ELSE /\ loops' = (loops (-) SetToBag({a}))
                        (+) SetToBag({Activation(it.pc, "auto", a.mode,
                                                 IF it.pc = "request" THEN N ELSE 0,
                                                 it.request, mark)})
         /\ UNCHANGED <<autoLoopController, btnDisabled>>

\* startAutoLoop, lines 149-151: the AUTO state before the first iteration.
autoLoopStarted(as) == resetAutoStats(setAutoRunning(as, TRUE))

\* startAutoLoop(mode), lines 145-173, called from the handler of the mode
\* after it disabled its button.
startAutoLoop(mode, in, N) ==
    /\ HasRoom
    /\ LET as0 == autoLoopStarted(autoState)
           sess0 == IF AutoLoops = {} THEN NewSession ELSE NoSession
           it == IterationBegin(as0, sess0, mode, N, in)
       IN /\ N <= MaxTotal
          /\ autoState' = it.as
          /\ session' = NoteEnded(it.sess, it.pc)
          /\ IF it.pc \in Exits
             THEN /\ UNCHANGED loops
                  /\ autoLoopController' = [autoLoopController EXCEPT !.isRunning = FALSE]
                  /\ btnDisabled' = [btnDisabled EXCEPT ![mode] = FALSE]
             ELSE /\ loops' = loops (+) SetToBag({Activation(it.pc, "auto", mode,
                                                  IF it.pc = "request" THEN N ELSE 0,
                                                  it.request, "live")})
                  /\ autoLoopController' = [autoLoopController EXCEPT !.isRunning = TRUE]
                  /\ btnDisabled' = [btnDisabled EXCEPT ![mode] = TRUE]

\* The request of an AUTO iteration completes (lines 170-214), then the rule
\* is read and the delay timer is set (lines 216-242).
RequestCompletes(a, outcome) ==
    LET it == IterationEnd(autoState, session, a.mode, a.imageCount, outcome)
    IN /\ autoState' = it.as
       /\ session' = NoteEnded(it.sess, it.pc)
       /\ LoopMoves(a, 0, it, a.mark)

RequestComplete(a) ==
    /\ a.kind = "auto" /\ a.pc = "request"
    /\ \E outcome \in Outcomes(a.imageCount) : RequestCompletes(a, outcome)
    /\ UNCHANGED <<currentMode, apiKey, selectedFile, modelSelect>>

\* Lines 155-173: the loop-top test passed, the loop `a` begins its next
\* iteration with the slider at N and the form holding `in`.
NextIteration(a, in, N) ==
    LET it == IterationBegin(autoState, session, a.mode, N, in)
    IN /\ autoState.stats.total + N <= MaxTotal
       /\ autoState' = it.as
       /\ session' = NoteEnded(it.sess, it.pc)
       /\ LoopMoves(a, N, it, IF a.mark = "live" THEN "live" ELSE "resumed")

\* Lines 155 and 245-247: the loop-top test failed.
LoopExits(a) ==
    /\ LoopMoves(a, 0, [pc |-> "exit"], a.mark)
    /\ session' = NoteEnded(session, "exit")
    /\ UNCHANGED autoState

\* The delay timer fires: the loop-top test, then the next iteration or the exit.
DelayElapsed(a) ==
    /\ a.kind = "auto" /\ a.pc = "delay"
    /\ IF LoopContinues(autoState, autoLoopController)
       THEN \E in \in Inputs, N \in SliderValues : NextIteration(a, in, N)
       ELSE LoopExits(a)
    /\ UNCHANGED <<currentMode, apiKey, selectedFile, modelSelect>>

\* ---------------------------------------------- workflow.js: stopAutoLoop
\* The AUTO state and the loop flag after stopAutoLoop(), lines 259-266.
stopAutoLoopState_OnlyIfRunning(as, ctl) ==
    IF as.running
    THEN [autoState |-> clearSessionImages(resetAutoState(setAutoRunning(as, FALSE))),
          autoLoopController |-> [ctl EXCEPT !.isRunning = FALSE]]
    ELSE [autoState |-> as, autoLoopController |-> ctl]
stopAutoLoopState(as, ctl) ==
    [autoState |-> clearSessionImages(resetAutoState(setAutoRunning(as, FALSE))),
     autoLoopController |-> [ctl EXCEPT !.isRunning = FALSE]]

\* The loops alive when stopAutoLoop runs, marked.
RECURSIVE MarkStopped(_)
MarkStopped(bag) ==
    IF bag = EmptyBag THEN EmptyBag
    ELSE LET a == CHOOSE x \in BagToSet(bag) : TRUE
             rest == [x \in BagToSet(bag) \ {a} |-> bag[x]]
             b == IF a.kind = "auto" /\ a.mark = "live" THEN [a EXCEPT !.mark = "stopped"] ELSE a
         IN [x \in {b} |-> bag[a]] (+) MarkStopped(rest)

stopAutoLoop ==
    LET stopped == stopAutoLoopState(autoState, autoLoopController)
    IN /\ autoState' = stopped.autoState
       /\ autoLoopController' = stopped.autoLoopController
       /\ session' = NoSession
       /\ loops' = IF stopHistory THEN MarkStopped(loops) ELSE loops

\* ------------------------------------------------ entry file: handlers
\* The AUTO panel of the displayed mode (stop button, slider) is displayed
\* exactly while AUTO is enabled: toggleAutoModeUI(true, mode) shows it on
\* toggle-on and on every mode switch, toggleAutoModeUI(false) hides both.
PanelShown == isAutoEnabled(autoState)

\* handleEditImage / handleGenerateImage: validation, then the AUTO loop or
\* one manual task (showLoading disables the button until the task ends).
handleSubmit(mode, in) ==
    IF ~TaskParams(mode, in).ok
    THEN UNCHANGED schedVars
    ELSE IF isAutoEnabled(autoState)
    THEN /\ \E N \in SliderValues : startAutoLoop(mode, in, N)
         /\ UNCHANGED <<currentMode, apiKey, selectedFile, modelSelect>>
    ELSE /\ HasRoom
         /\ loops' = loops (+) SetToBag({Activation("request", "manual", mode, 0,
                                          requestOf(TaskParams(mode, in).params, 0),
                                          "live")})
         /\ btnDisabled' = [btnDisabled EXCEPT ![mode] = TRUE]
         /\ UNCHANGED <<autoState, autoLoopController, currentMode, apiKey, selectedFile,
                        modelSelect, session>>

\* Click on the submit button of the displayed mode (a disabled button fires nothing).
SubmitClick ==
    /\ ~btnDisabled[currentMode]
    /\ \E in \in Inputs : handleSubmit(currentMode, in)

\* The Ctrl+Enter keydown handler calls the handler of the current mode directly.
CtrlEnter == \E in \in Inputs : handleSubmit(currentMode, in)

\* The manual task ends (result, failure or exception): finally showLoading(false).
ManualComplete(a) ==
    /\ a.kind = "manual" /\ a.pc = "request"
    /\ loops' = loops (-) SetToBag({a})
    /\ btnDisabled' = [btnDisabled EXCEPT ![a.mode] = FALSE]
    /\ UNCHANGED <<autoState, autoLoopController, currentMode, apiKey, selectedFile,
                   modelSelect, session>>

\* Click on the AUTO toggle button.
AutoToggleClick ==
    /\ IF isAutoEnabled(autoState)
       THEN stopAutoLoop
       ELSE /\ autoState' = setAutoMode(setAutoEnabled(autoState, TRUE), currentMode)
            /\ UNCHANGED <<autoLoopController, session, loops>>
    /\ UNCHANGED <<currentMode, apiKey, selectedFile, modelSelect, btnDisabled>>

\* Click on the stop button of the AUTO panel of the displayed mode.
StopButtonClick ==
    /\ PanelShown
    /\ stopAutoLoop
    /\ UNCHANGED <<currentMode, apiKey, selectedFile, modelSelect, btnDisabled>>

\* handleSwitchMode(mode); switching to the mode displayed changes nothing
\* (a stuttering step).
SwitchMode(mode) ==
    /\ mode # currentMode
    /\ currentMode' = mode
    /\ UNCHANGED <<autoState, autoLoopController, apiKey, selectedFile, modelSelect, btnDisabled, loops, session>>

\* The user picks files (the file input's change handler).
SelectFile ==
    /\ currentMode = "edit"
    /\ ~selectedFile
    /\ selectedFile' = TRUE
    /\ UNCHANGED <<autoState, autoLoopController, currentMode, apiKey, modelSelect, btnDisabled, loops, session>>

\* handleSaveApiKey (a key with the provider's prefix) / handleDeleteApiKey
SaveApiKey ==
    /\ currentProvider \in providersOf(appConfig)
    /\ apiKey # "key"
    /\ apiKey' = "key"
    /\ UNCHANGED <<autoState, autoLoopController, currentMode, selectedFile, modelSelect, btnDisabled, loops, session>>

DeleteApiKey ==
    /\ apiKey # ""
    /\ apiKey' = ""
    /\ UNCHANGED <<autoState, autoLoopController, currentMode, selectedFile, modelSelect, btnDisabled, loops, session>>

\* ------------------------------------------- api.js: the stream decoder
\* Number of lines of one streamed body.
MaxFrames == 3

\* Text is a sequence of one-character strings.
LF == "\n"
Prefix == <<"d", "a", "t", "a", ":", " ">>
DoneSentinel == <<"[", "D", "O", "N", "E", "]">>
\* The JSON text of an image record with index i, `{"index":i,...}`, and of
\* an error frame with message m, `{"error":"m"}`, are written {i} and {m}.
\* The frame at position p of a body carries index Digit[p] if it is an
\* image record and the (non-empty) message Letter[p] if it is an error frame.
Digit == <<"1", "2", "3", "4", "5", "6", "7", "8", "9">>
Letter == <<"a", "b", "c", "d", "e", "f", "g", "h", "i">>
ImageIndexes == {Digit[p] : p \in 1..(MaxFrames + 1)}
ErrorMessages == {Letter[p] : p \in 1..(MaxFrames + 1)}
JSONText(c) == <<"{", c, "}">>
NoImageMessage == "no image received"

\* The lines a body is made of, without their newline.
FrameKinds == {"image", "error", "done", "malformed", "blank", "comment"}
FrameLine(kind, p) ==
    CASE kind = "image" -> Prefix \o JSONText(Digit[p])
      [] kind = "error" -> Prefix \o JSONText(Letter[p])
      [] kind = "done" -> Prefix \o DoneSentinel
      [] kind = "malformed" -> Prefix \o <<"{", Digit[p]>>
      [] kind = "blank" -> <<" ">>
      [] kind = "comment" -> <<":", "1">>

RECURSIVE Concat(_, _)
Concat(fs, p) ==
    IF fs = <<>> THEN <<>>
    ELSE FrameLine(Head(fs), p) \o <<LF>> \o Concat(Tail(fs), p + 1)

\* The body of the response: the frames, each ended by a newline, and then
\* possibly one more image frame that the server did not terminate.
Body(fs, t) ==
    Concat(fs, 1) \o (IF t THEN FrameLine("image", Len(fs) + 1) ELSE <<>>)

\* String.prototype.indexOf(LF, from) counted from 1; 0 when there is none.
RECURSIVE indexOfLF(_, _)
indexOfLF(text, from) ==
    IF from > Len(text) THEN 0
    ELSE IF text[from] = LF THEN from
    ELSE indexOfLF(text, from + 1)

\* String.prototype.split('\n')
RECURSIVE split(_)
split(text) ==
    LET i == indexOfLF(text, 1)
    IN IF i = 0
       THEN <<text>>
       ELSE <<SubSeq(text, 1, i - 1)>> \o split(SubSeq(text, i + 1, Len(text)))

\* !line.trim()
trimIsEmpty(line) == \A i \in 1..Len(line) : line[i] \in {" ", "\t", "\r"}

startsWith(line, prefix) ==
    Len(line) >= Len(prefix) /\ SubSeq(line, 1, Len(prefix)) = prefix

\* JSON.parse(data): the parsed value, or ok = FALSE when it throws.
JSONParse(data) ==
    IF Len(data) = 3 /\ data[1] = "{" /\ data[3] = "}" /\ data[2] \in ImageIndexes
    THEN [ok |-> TRUE, error |-> "", index |-> data[2]]
    ELSE IF Len(data) = 3 /\ data[1] = "{" /\ data[3] = "}" /\ data[2] \in ErrorMessages
    THEN [ok |-> TRUE, error |-> data[2], index |-> ""]
    ELSE [ok |-> FALSE, error |-> "", index |-> ""]

\* The locals of the decoder that the loop over the lines updates.
DecoderState(n, e, m, cb) ==
    [totalReceived |-> n, hasError |-> e, errorMessage |-> m, callbacks |-> cb]

\* The body of `for (const line of lines)`, lines 107-144.
processLine_AbortOnError(st, line) ==
    IF st.hasError THEN st
    ELSE IF trimIsEmpty(line) THEN st
    ELSE IF ~startsWith(line, Prefix) THEN st
    ELSE LET data == SubSeq(line, Len(Prefix) + 1, Len(line))
         IN IF data = DoneSentinel THEN st
            ELSE LET imageData == JSONParse(data)
                 IN IF ~imageData.ok THEN st
                    ELSE IF imageData.error # ""
                    THEN [st EXCEPT !.hasError = TRUE, !.errorMessage = imageData.error]
                    ELSE [st EXCEPT !.totalReceived = @ + 1,
                                    !.callbacks = Append(@, imageData.index)]
processLine_FailOnParseError(st, line) ==
    IF trimIsEmpty(line) THEN st
    ELSE IF ~startsWith(line, Prefix) THEN st
    ELSE LET data == SubSeq(line, Len(Prefix) + 1, Len(line))
         IN IF data = DoneSentinel THEN st
            ELSE LET imageData == JSONParse(data)
                 IN IF ~imageData.ok
                    THEN [st EXCEPT !.hasError = TRUE, !.errorMessage = "parse error"]
                    ELSE IF imageData.error # ""
                    THEN [st EXCEPT !.hasError = TRUE, !.errorMessage = imageData.error]
                    ELSE [st EXCEPT !.totalReceived = @ + 1,
                                    !.callbacks = Append(@, imageData.index)]
processLine(st, line) ==
    IF trimIsEmpty(line) THEN st
    ELSE IF ~startsWith(line, Prefix) THEN st
    ELSE LET data == SubSeq(line, Len(Prefix) + 1, Len(line))
         IN IF data = DoneSentinel THEN st
            ELSE LET imageData == JSONParse(data)
                 IN IF ~imageData.ok THEN st
                    ELSE IF imageData.error # ""
                    THEN [st EXCEPT !.hasError = TRUE, !.errorMessage = imageData.error]
                    ELSE [st EXCEPT !.totalReceived = @ + 1,
                                    !.callbacks = Append(@, imageData.index)]

RECURSIVE processLines_StopAtDone(_, _)
processLines_StopAtDone(st, lines) ==
    IF lines = <<>> \/ Head(lines) = Prefix \o DoneSentinel THEN st
    ELSE processLines_StopAtDone(processLine(st, Head(lines)), Tail(lines))
RECURSIVE processLines(_, _)
processLines(st, lines) ==
    IF lines = <<>> THEN st ELSE processLines(processLine(st, Head(lines)), Tail(lines))

\* Lines 99-105: the chunk joins the buffer, the last piece is held back.
heldBack_Nothing(lines) == <<>>
heldBack(lines) == lines[Len(lines)]

\* Lines 98-145: one chunk, from the buffer and locals before to those after.
decodeChunk(buf, st, chunk) ==
    LET lines == split(buf \o chunk)
    IN [buffer |-> heldBack(lines),
        st |-> processLines(st, SubSeq(lines, 1, Len(lines) - 1))]

\* Lines 147-155: the value returned once the stream is done.
decoderResult_CountOnly(st) ==
    IF st.totalReceived = 0
    THEN [success |-> FALSE, error |-> NoImageMessage, totalReceived |-> 0]
    ELSE [success |-> TRUE, error |-> "", totalReceived |-> st.totalReceived]
decoderResult(st) ==
    IF st.hasError
    THEN [success |-> FALSE, error |-> st.errorMessage, totalReceived |-> st.totalReceived]
    ELSE IF st.totalReceived = 0
    THEN [success |-> FALSE, error |-> NoImageMessage, totalReceived |-> 0]
    ELSE [success |-> TRUE, error |-> "", totalReceived |-> st.totalReceived]

NoResult == [success |-> FALSE, error |-> "", totalReceived |-> -1]

CurrentDecoderState == DecoderState(totalReceived, hasError, errorMessage, callbacks)

\* fetch resolves with an OK response, or the request fails (rejection, or
\* !response.ok: the decoder throws).
FetchResponds ==
    /\ fetchPc = "fetch"
    /\ \E ok \in BOOLEAN :
         fetchPc' = IF ok THEN "reading" ELSE "thrown"
    /\ UNCHANGED <<frames, body, tail, pos, buffer, totalReceived, hasError,
                   errorMessage, callbacks, result>>

\* reader.read() delivers the next chunk: any non-empty piece of what is left.
ReadChunk ==
    /\ fetchPc = "reading"
    /\ pos < Len(body)
    /\ \E n \in 1..(Len(body) - pos) :
         \E d \in {decodeChunk(buffer, CurrentDecoderState, SubSeq(body, pos + 1, pos + n))} :
            /\ pos' = pos + n
            /\ buffer' = d.buffer
            /\ totalReceived' = d.st.totalReceived
            /\ hasError' = d.st.hasError
            /\ errorMessage' = d.st.errorMessage
            /\ callbacks' = d.st.callbacks
    /\ UNCHANGED <<frames, body, tail, fetchPc, result>>

\* reader.read() reports done: the loop ends and the result is returned.
ReadDone_Flush ==
    /\ fetchPc = "reading"
    /\ pos = Len(body)
    /\ fetchPc' = "done"
    /\ LET st == processLine(CurrentDecoderState, buffer)
       IN /\ result' = decoderResult(st)
          /\ totalReceived' = st.totalReceived
          /\ hasError' = st.hasError
          /\ errorMessage' = st.errorMessage
          /\ callbacks' = st.callbacks
    /\ UNCHANGED <<frames, body, tail, pos, buffer>>
ReadDone ==
    /\ fetchPc = "reading"
    /\ pos = Len(body)
    /\ fetchPc' = "done"
    /\ result' = decoderResult(CurrentDecoderState)
    /\ UNCHANGED <<frames, body, tail, pos, buffer, totalReceived, hasError, errorMessage,
                   callbacks>>

FrameSeqs == UNION {[1..n -> FrameKinds] : n \in 0..MaxFrames}

DecoderIdle ==
    /\ fetchPc = "fetch"
    /\ pos = 0
    /\ buffer = <<>>
    /\ totalReceived = 0
    /\ hasError = FALSE
    /\ errorMessage = ""
    /\ callbacks = <<>>
    /\ result = NoResult

\* ------------------------------------------------------ the result feed
MaxBatch == 3
MaxArrived == 26

MAX_IMAGES == 20

\* The results container holds a placeholder paragraph, or an .image-gallery
\* element and its .generated-item children, oldest first.  An image is
\* named by its rank among the images that arrived since the container was
\* last emptied.
Placeholder == [gallery |-> FALSE, items |-> <<>>]
NothingArrived == [images |-> 0, calls |-> 0]

\* The images of one call: the next k that arrive.
Batch(mode, k) == [i \in 1..k |-> arrived[mode].images + i]

\* Lines 46-54: the first removeCount of the items are removed.
removeOldest_Newest(items, removeCount) == SubSeq(items, 1, Len(items) - removeCount)
removeOldest(items, removeCount) == SubSeq(items, removeCount + 1, Len(items))

appendToGallery(container, images) ==
    LET gallery == IF container.gallery THEN container.items ELSE <<>>
        items == gallery \o images
    IN [gallery |-> TRUE,
        items |-> IF Len(items) > MAX_IMAGES
                  THEN removeOldest(items, Len(items) - MAX_IMAGES)
                  ELSE items]

renderEditResults(container, images, isAutoMode) ==
    IF isAutoMode
    THEN appendToGallery(container, images)
    ELSE [gallery |-> TRUE, items |-> images]

renderGenerateResults(container, images, isAutoMode) ==
    IF isAutoMode
    THEN appendToGallery(container, images)
    ELSE [gallery |-> TRUE, items |-> images]

renderResults(mode, container, images, isAutoMode) ==
    IF mode = "edit"
    THEN renderEditResults(container, images, isAutoMode)
    ELSE renderGenerateResults(container, images, isAutoMode)

\* renderEditResults(images, true) / renderGenerateResults(images, true)
AppendImages(mode, k) ==
    /\ arrived[mode].images + k <= MaxArrived
    /\ results' = [results EXCEPT ![mode] = renderResults(mode, @, Batch(mode, k), TRUE)]
    /\ arrived' = [arrived EXCEPT ![mode] = [images |-> @.images + k, calls |-> @.calls + 1]]

\* clearEditResults / clearGenerateResults
ClearResults(mode) ==
    /\ results[mode] # Placeholder \/ arrived[mode] # NothingArrived
    /\ results' = [results EXCEPT ![mode] = Placeholder]
    /\ arrived' = [arrived EXCEPT ![mode] = NothingArrived]

FeedIdle ==
    /\ results = [m \in Modes |-> Placeholder]
    /\ arrived = [m \in Modes |-> NothingArrived]
    /\ streams = <<>>

\* ------------------------------------------ manual tasks and their feed
MaxTasks == 2
MaxTaskImages == 2

\* clearEditResults / clearGenerateResults and resetEditResults /
\* resetGenerateResults: the container holds a text and no image.
emptied(mode) ==
    /\ results' = [results EXCEPT ![mode] = Placeholder]
    /\ arrived' = [arrived EXCEPT ![mode] = NothingArrived]

\* handleEditImage / handleGenerateImage, the manual branch up to the await:
\* when the handler started a task, the feed of the mode is cleared and the
\* task's stream opens.
TaskStarts ==
    IF loops' # loops
    THEN /\ Len(streams) < MaxTasks
         /\ streams' = Append(streams, [mode |-> currentMode, images |-> 0,
                                        status |-> "open"])
         /\ emptied(currentMode)
    ELSE UNCHANGED <<results, arrived, streams>>

TaskSubmitClick ==
    /\ SubmitClick
    /\ TaskStarts
    /\ UNCHANGED <<decVars, formVars, stopHistory, configVars>>

TaskCtrlEnter ==
    /\ CtrlEnter
    /\ TaskStarts
    /\ UNCHANGED <<decVars, formVars, stopHistory, configVars>>

\* runTaskOnce, the onProgress callback of a manual task: the image joins
\* receivedImages and is appended to the feed of the task's mode.
ImageArrives(i) ==
    /\ streams[i].status = "open"
    /\ streams[i].images < MaxTaskImages
    /\ LET mode == streams[i].mode
           image == [task |-> i, index |-> streams[i].images + 1]
       IN /\ results' = [results EXCEPT ![mode] = renderResults(mode, @, <<image>>, TRUE)]
          /\ arrived' = [arrived EXCEPT ![mode] =
                           [images |-> @.images + 1, calls |-> @.calls + 1]]
    /\ streams' = [streams EXCEPT ![i].images = @ + 1]
    /\ UNCHANGED <<schedVars, decVars, formVars, stopHistory, configVars>>

\* The manual task ends: with success (at least one image and no error), the
\* feed stays as the callbacks left it; otherwise the feed is reset.
TaskEnds(i, success) ==
    /\ streams[i].status = "open"
    /\ success => streams[i].images >= 1
    /\ \E a \in Live : a.mode = streams[i].mode /\ ManualComplete(a)
    /\ streams' = [streams EXCEPT ![i].status = IF success THEN "ok" ELSE "failed"]
    /\ IF success THEN UNCHANGED <<results, arrived>> ELSE emptied(streams[i].mode)
    /\ UNCHANGED <<decVars, formVars, stopHistory, configVars>>

\* ------------------------------------------------- config.js: the rules
Flash == "google/gemini-2.5-flash-image"
Pro == "google/gemini-3-pro-image-preview"
FlashPreview == "gemini-2.5-flash-image-preview"
\* The ids the README lists for the Google provider.
FlashId == "gemini-2.5-flash-image"
ProId == "gemini-3-pro-image-preview"
GoogleModels == {Flash, Pro, FlashPreview, FlashId, ProId}

OpenRouterFree == "google/gemini-2.5-flash-image-preview:free"

\* fallbackConfig.providers[provider].models, as the set of their values
fallbackModels(provider) ==
    CASE provider = "google" -> {FlashPreview}
      [] provider = "openrouter" -> {OpenRouterFree}
      [] provider = "tuzi" -> {FlashId}

\* fallbackConfig.providers[provider].defaultModel
fallbackDefaultModel_Renamed(provider) ==
    CASE provider = "google" -> FlashId
      [] provider = "openrouter" -> OpenRouterFree
      [] provider = "tuzi" -> FlashId
fallbackDefaultModel(provider) ==
    CASE provider = "google" -> FlashPreview
      [] provider = "openrouter" -> OpenRouterFree
      [] provider = "tuzi" -> FlashId

\* The models of the backend's table: for google the ids the rules are keyed
\* by and the ids the README lists, for the others the model of the fallback.
backendModels(provider) ==
    IF provider = "google" THEN GoogleModels ELSE fallbackModels(provider)

backendDefaultModel(provider) == fallbackDefaultModel(provider)

modelsOfTable(config, provider) ==
    IF config = "fallback" THEN fallbackModels(provider) ELSE backendModels(provider)

defaultModelOfTable(config, provider) ==
    IF config = "fallback" THEN fallbackDefaultModel(provider)
    ELSE backendDefaultModel(provider)

\* appConfig.providers.google.imageOptions: the fallback table has none
hasImageOptions(config) == config = "backend"

\* providers[provider].models and .defaultModel of the configuration
ModelsOf(provider) == modelsOfTable(appConfig, provider)

defaultModel(provider) == defaultModelOfTable(appConfig, provider)

Models == UNION {modelsOfTable(config, p) : config \in ConfigNames, p \in Providers}

Rule(recommended, max, delay) == [recommended |-> recommended, max |-> max, delay |-> delay]

CONCURRENCY_RULES ==
    [key \in {Flash, Pro, "tuzi", "openrouter", "default"} |->
       CASE key = Flash -> Rule(4, 5, 1000)
         [] key = Pro -> Rule(1, 1, 3500)
         [] key = "tuzi" -> Rule(5, 5, 500)
         [] key = "openrouter" -> Rule(3, 4, 1000)
         [] key = "default" -> Rule(2, 3, 1500)]

\* CONCURRENCY_RULES[key] || CONCURRENCY_RULES['default']
ruleOrDefault(key) ==
    IF key \in DOMAIN CONCURRENCY_RULES THEN CONCURRENCY_RULES[key]
    ELSE CONCURRENCY_RULES["default"]

getConcurrencyRule(provider, model) ==
    IF provider = "google" THEN ruleOrDefault(model) ELSE ruleOrDefault(provider)

\* ------------------------------------------- workflow.js: the delay
\* Milliseconds as a fraction num / den: the code computes in floating point.
Ms(num, den) == [num |-> num, den |-> den]

\* rule.delay * n / rule.recommended, without the floor at the base delay
delayMs_NoFloor(rule, n) == Ms(rule.delay * n, rule.recommended)
\* rule.delay * Math.max(1, currentImageCount / rule.recommended)
delayMs(rule, n) ==
    LET quotient == Ms(n, rule.recommended)
        factor == IF quotient.num > quotient.den THEN quotient ELSE Ms(1, 1)
    IN Ms(rule.delay * factor.num, factor.den)

NoTimer == [rule |-> Rule(0, 0, 0), n |-> 0, ms |-> Ms(0, 1)]

\* ---------------------------------------------- ui/forms: the provider form
Resolutions == {"", "2K"}

\* updateModelSelectors: the saved model of the provider if the provider
\* offers it, else the default model.
modelSelected(provider, config, preferences, mode) ==
    IF preferences[provider][mode] \in modelsOfTable(config, provider)
    THEN preferences[provider][mode]
    ELSE defaultModelOfTable(config, provider)

\* The new values of the model <select>s `selects`: left alone when no
\* configuration is loaded or it has no such provider.
updateModelSelectors(selects, provider, config, preferences) ==
    IF provider \notin providersOf(config) THEN selects
    ELSE [mode \in Modes |-> modelSelected(provider, config, preferences, mode)]

\* The control enabled for every model of the provider google
updateResolutionAvailability_AnyModel(control, selectedModel, provider, config) ==
    IF provider # "google" \/ ~hasImageOptions(config) THEN control
    ELSE [disabled |-> FALSE, value |-> control.value]
\* updateResolutionAvailability(mode, selectedModel, provider, appConfig),
\* as a new value of one resolution <select>.
updateResolutionAvailability(control, selectedModel, provider, config) ==
    IF provider # "google" \/ ~hasImageOptions(config) THEN control
    ELSE LET supportsResolution == selectedModel \in DOMAIN modelSupport
                                      /\ modelSupport[selectedModel]
         IN [disabled |-> ~supportsResolution,
             value |-> IF supportsResolution THEN control.value ELSE ""]

\* The slider set to the recommended value of one fixed rule
refreshAutoConcurrencyUI_Fixed(provider, model) == CONCURRENCY_RULES[Flash].recommended
\* updateAutoConcurrencySettings: the slider at the rule's recommended value
refreshAutoConcurrencyUI(provider, model) == getConcurrencyRule(provider, model).recommended

\* The provider <select> changes (lines 317-348 of the entry file).
ProviderChange(provider) ==
    /\ provider # currentProvider
    /\ currentProvider' = provider
    /\ apiKey' \in {"", "key"}
    /\ LET models == updateModelSelectors(modelSelect, provider, appConfig,
                                          providerModelPreferences)
       IN /\ modelSelect' = models
          /\ resolutionSelect' =
               IF provider = "google"
               THEN [mode \in Modes |->
                       updateResolutionAvailability(resolutionSelect[mode], models[mode],
                                                    provider, appConfig)]
               ELSE resolutionSelect
          /\ slider' = [mode \in Modes |-> refreshAutoConcurrencyUI(provider, models[mode])]
    /\ UNCHANGED <<providerModelPreferences, timer, modelSupport>>
    /\ UNCHANGED <<autoState, autoLoopController, currentMode, selectedFile, btnDisabled,
                   loops, session>>

\* The model <select> of a mode changes (lines 351-383).
ModelChange(mode, model) ==
    /\ currentProvider \in providersOf(appConfig)
    /\ model \in ModelsOf(currentProvider) \ {modelSelect[mode]}
    /\ modelSelect' = [modelSelect EXCEPT ![mode] = model]
    /\ resolutionSelect' =
         [resolutionSelect EXCEPT
            ![mode] = updateResolutionAvailability(@, model, currentProvider, appConfig)]
    /\ providerModelPreferences' =
         [providerModelPreferences EXCEPT ![currentProvider][mode] = model]
    /\ slider' = [slider EXCEPT ![mode] = refreshAutoConcurrencyUI(currentProvider, model)]
    /\ UNCHANGED <<currentProvider, timer, modelSupport>>
    /\ UNCHANGED <<autoState, autoLoopController, currentMode, apiKey, selectedFile,
                   btnDisabled, loops, session>>

\* The user moves the slider of a mode, within 1..max of the rule shown.
SliderInput(mode, n) ==
    /\ n \in 1..getConcurrencyRule(currentProvider, modelSelect[mode]).max
    /\ n # slider[mode]
    /\ slider' = [slider EXCEPT ![mode] = n]
    /\ UNCHANGED <<currentProvider, providerModelPreferences, resolutionSelect, timer,
                   modelSupport, schedVars>>

\* The user picks a resolution in an enabled, displayed control.
ResolutionPick(mode, value) ==
    /\ currentProvider = "google" /\ ~resolutionSelect[mode].disabled
    /\ value # resolutionSelect[mode].value
    /\ resolutionSelect' = [resolutionSelect EXCEPT ![mode].value = value]
    /\ UNCHANGED <<currentProvider, providerModelPreferences, slider, timer, modelSupport,
                   schedVars>>

\* startAutoLoop, lines 216-242: the rule of the provider and model now in
\* the form, the slider value read again, and the delay they give.
delayTimer_Recommended(mode) ==
    LET rule == getConcurrencyRule(currentProvider, modelSelect[mode])
    IN [rule |-> rule, n |-> rule.recommended, ms |-> delayMs(rule, rule.recommended)]
delayTimer(mode) ==
    LET rule == getConcurrencyRule(currentProvider, modelSelect[mode])
        currentImageCount == slider[mode]
    IN [rule |-> rule, n |-> currentImageCount, ms |-> delayMs(rule, currentImageCount)]

\* startAutoLoop, lines 216-242: the delay after an iteration of `mode`.
SetDelay(mode) ==
    /\ timer' = delayTimer(mode)
    /\ UNCHANGED <<currentProvider, providerModelPreferences, resolutionSelect, slider,
                   modelSupport, schedVars>>

\* ------------------------------------ the image parameters of a request
AspectRatios == {"", "16:9"}

\* value || null
orNull(value) == IF value = "" THEN "null" ELSE value

\* getTaskParams, the parameters only the Google provider has: the aspect
\* ratio chosen, and the resolution chosen in a control that is not disabled.
\* A bundle of another provider has neither property.
imageParams_DisabledToo(provider, aspectRatio, control) ==
    IF provider = "google"
    THEN [aspectRatio |-> orNull(aspectRatio), resolution |-> orNull(control.value)]
    ELSE [aspectRatio |-> "undefined", resolution |-> "undefined"]
imageParams(provider, aspectRatio, control) ==
    IF provider = "google"
    THEN [aspectRatio |-> orNull(aspectRatio),
          resolution |-> IF control.value # "" /\ ~control.disabled THEN control.value
                         ELSE "null"]
    ELSE [aspectRatio |-> "undefined", resolution |-> "undefined"]

\* if (params.aspectRatio) ... if (params.resolution) ...
truthy(value) == value \notin {"", "null", "undefined"}

\* runTaskOnce: the image fields appended to the FormData, by field name
imageFields(params) ==
    LET valueOf(name) == IF name = "aspect_ratio" THEN params.aspectRatio
                         ELSE params.resolution
    IN [name \in {n \in {"aspect_ratio", "resolution"} : truthy(valueOf(n))} |->
          valueOf(name)]

\* runTaskOnce, lines 32-67: the request of a task of `mode` is built from
\* the form, the aspect ratio <select> showing `aspectRatio`.  The form the
\* request was built from is kept beside its fields.
BuildRequest(mode, aspectRatio) ==
    /\ formData' = <<[provider |-> currentProvider,
                      model |-> modelSelect[mode],
                      aspectRatio |-> aspectRatio,
                      control |-> resolutionSelect[mode],
                      fields |-> imageFields(imageParams(currentProvider, aspectRatio,
                                                         resolutionSelect[mode]))]>>
    /\ UNCHANGED <<schedVars, decVars, feedVars, formVars, stopHistory, appConfig, page,
                   streams>>

\* ----------------------------------------- config.js: loadConfiguration
\* What GET /api/config does: answers a payload with success = true, rejects,
\* answers a body that is not JSON, or answers a payload with success = false.
FetchOutcomes == {"ok", "rejected", "unparsable", "refused"}

\* Where the try block of loadConfiguration throws.
thrownAt(outcome) ==
    CASE outcome = "rejected" -> "fetch"
      [] outcome = "unparsable" -> "json"
      [] outcome = "refused" -> "throw"
      [] outcome = "ok" -> "none"

loadConfiguration_Propagates(outcome) ==
    IF thrownAt(outcome) = "none"
    THEN [success |-> TRUE, config |-> "backend", usingFallback |-> FALSE]
    ELSE [success |-> FALSE, config |-> "null", usingFallback |-> FALSE]
\* The catch block answers the fallback table as a success.
loadConfiguration(outcome) ==
    IF thrownAt(outcome) = "none"
    THEN [success |-> TRUE, config |-> "backend", usingFallback |-> FALSE]
    ELSE [success |-> TRUE, config |-> "fallback", usingFallback |-> TRUE]

\* config.defaultProvider
defaultProvider(config) == "google"

MsgUsingFallback == <<"config", "load", "failed", "using", "default", "config">>
MsgConfigFailed == <<"config", "load", "failed">>

\* The provider id restoreAppState finds in storage: none (""), one of the
\* configuration, or one no configuration has.
StoredProviders == Providers \cup {"", "legacy"}

\* refreshAllAutoConcurrencyUI: a slider is set only if its mode has a model
refreshAllAutoConcurrencyUI(sliders, provider, models) ==
    [mode \in Modes |->
       IF models[mode] = "" THEN sliders[mode]
       ELSE refreshAutoConcurrencyUI(provider, models[mode])]

\* initApp followed by the first refreshAllAutoConcurrencyUI: the
\* configuration is loaded and stored, the warning shown when it is the
\* fallback, the provider, key and resolutions restored from storage, the
\* controls updated for the provider.
InitApp(outcome, stored, key, restored) ==
    /\ page.pc = "loading"
    /\ LET loaded == loadConfiguration(outcome)
           config == IF loaded.success THEN loaded.config ELSE appConfig
           error == IF ~loaded.success THEN MsgConfigFailed
                    ELSE IF loaded.usingFallback THEN MsgUsingFallback ELSE <<>>
           provider == IF stored # "" THEN stored
                       ELSE IF loaded.success THEN defaultProvider(config)
                       ELSE currentProvider
           models == updateModelSelectors(modelSelect, provider, config,
                                          providerModelPreferences)
       IN /\ appConfig' = config
          /\ page' = [pc |-> "ready", fetched |-> outcome, error |-> error,
                      uncaught |-> FALSE]
          /\ currentProvider' = provider
          /\ apiKey' = key
          /\ modelSelect' = models
          /\ resolutionSelect' =
               [mode \in Modes |->
                  updateResolutionAvailability(
                    [disabled |-> resolutionSelect[mode].disabled, value |-> restored[mode]],
                    models[mode], provider, config)]
          /\ slider' = refreshAllAutoConcurrencyUI(slider, provider, models)
    /\ UNCHANGED <<autoState, autoLoopController, currentMode, selectedFile, btnDisabled,
                   loops, session>>
    /\ UNCHANGED <<providerModelPreferences, timer, modelSupport, formData>>
    /\ UNCHANGED <<decVars, feedVars, stopHistory, streams>>

\* handleSaveApiKey while the configuration has no provider of the current
\* id: reading apiKeyPrefix of undefined throws, nothing is saved.
SaveApiKeyThrows ==
    /\ appConfig \in ConfigNames
    /\ currentProvider \notin providersOf(appConfig)
    /\ ~page.uncaught
    /\ page' = [page EXCEPT !.uncaught = TRUE]
    /\ UNCHANGED <<schedVars, decVars, feedVars, formVars, stopHistory, appConfig, formData,
                   streams>>

\* The provider form while nothing changes it.
FormIdle ==
    /\ currentProvider = "google"
    /\ providerModelPreferences = [p \in Providers |-> [mode \in Modes |-> ""]]
    /\ resolutionSelect = [mode \in Modes |-> [disabled |-> FALSE, value |-> ""]]
    /\ slider = [mode \in Modes |-> 1]
    /\ timer = NoTimer
    /\ modelSupport = [m \in GoogleModels |-> FALSE]

\* The configuration while nothing changes it: the backend's table loaded,
\* nothing shown, no request built.
ConfigIdle ==
    /\ appConfig = "backend"
    /\ page = [pc |-> "ready", fetched |-> "ok", error |-> <<>>, uncaught |-> FALSE]
    /\ formData = <<>>

\* The value of the model <select>s once updateModelSelectors has run: a
\* model of the provider (every provider of the configuration offers its
\* default model).
ModelValues == {"model"}

SchedInit ==
    /\ autoState = InitAutoState
    /\ autoLoopController = [isRunning |-> FALSE]
    /\ currentMode = "edit"
    /\ apiKey \in {"", "key"}
    /\ selectedFile = FALSE
    /\ modelSelect \in {[m \in Modes |-> v] : v \in ModelValues}
    /\ btnDisabled = [m \in Modes |-> FALSE]
    /\ loops = EmptyBag
    /\ session = NoSession

Init ==
    /\ SchedInit
    /\ FormIdle
    /\ stopHistory = FALSE
    /\ frames = <<>> /\ tail = FALSE /\ body = <<>> /\ DecoderIdle
    /\ FeedIdle
    /\ ConfigIdle

Next ==
    \/ SubmitClick /\ UNCHANGED notSchedVars
    \/ CtrlEnter /\ UNCHANGED notSchedVars
    \/ AutoToggleClick /\ UNCHANGED notSchedVars
    \/ StopButtonClick /\ UNCHANGED notSchedVars
    \/ \E mode \in Modes : SwitchMode(mode) /\ UNCHANGED notSchedVars
    \/ SelectFile /\ UNCHANGED notSchedVars
    \/ SaveApiKey /\ UNCHANGED notSchedVars
    \/ DeleteApiKey /\ UNCHANGED notSchedVars
    \/ \E a \in Live : RequestComplete(a) /\ UNCHANGED notSchedVars
    \/ \E a \in Live : DelayElapsed(a) /\ UNCHANGED notSchedVars
    \/ \E a \in Live : ManualComplete(a) /\ UNCHANGED notSchedVars

Spec == Init /\ [][Next]_vars

\* The same program, with every stop recorded in the loops it found alive.
StopInit ==
    /\ SchedInit
    /\ stopHistory = TRUE
    /\ FormIdle
    /\ frames = <<>> /\ tail = FALSE /\ body = <<>> /\ DecoderIdle
    /\ FeedIdle
    /\ ConfigIdle

StopSpec == StopInit /\ [][Next]_vars

\* ---------------------------------------- one streamed response, decoded
\* The scheduler at rest.
SchedIdle ==
    /\ SchedInit
    /\ apiKey = "key"
    /\ modelSelect = [m \in Modes |-> "model"]

DecoderInit ==
    /\ SchedIdle
    /\ FormIdle
    /\ stopHistory = FALSE
    /\ frames \in FrameSeqs
    /\ tail \in BOOLEAN
    /\ body = Body(frames, tail)
    /\ DecoderIdle
    /\ FeedIdle
    /\ ConfigIdle

DecoderNext ==
    \/ FetchResponds /\ UNCHANGED <<schedVars, feedVars, formVars, stopHistory, configVars, streams>>
    \/ ReadChunk /\ UNCHANGED <<schedVars, feedVars, formVars, stopHistory, configVars, streams>>
    \/ ReadDone /\ UNCHANGED <<schedVars, feedVars, formVars, stopHistory, configVars, streams>>

DecoderSpec == DecoderInit /\ [][DecoderNext]_vars

FeedInit ==
    /\ SchedIdle
    /\ FormIdle
    /\ stopHistory = FALSE
    /\ frames = <<>> /\ tail = FALSE /\ body = <<>> /\ DecoderIdle
    /\ FeedIdle
    /\ ConfigIdle

FeedNext ==
    \/ \E mode \in Modes, k \in 1..MaxBatch :
         AppendImages(mode, k) /\ UNCHANGED <<schedVars, decVars, formVars, stopHistory, configVars, streams>>
    \/ \E mode \in Modes : ClearResults(mode) /\ UNCHANGED <<schedVars, decVars, formVars, stopHistory, configVars, streams>>

FeedSpec == FeedInit /\ [][FeedNext]_vars

\* The manual tasks of a page where AUTO stays off, and their feeds.
TaskInit == Init

TaskNext ==
    \/ TaskSubmitClick
    \/ TaskCtrlEnter
    \/ \E mode \in Modes : SwitchMode(mode) /\ UNCHANGED notSchedVars
    \/ SelectFile /\ UNCHANGED notSchedVars
    \/ SaveApiKey /\ UNCHANGED notSchedVars
    \/ DeleteApiKey /\ UNCHANGED notSchedVars
    \/ \E i \in DOMAIN streams : ImageArrives(i)
    \/ \E i \in DOMAIN streams, success \in BOOLEAN : TaskEnds(i, success)

TaskSpec == TaskInit /\ [][TaskNext]_vars

\* ------------------------------------------------------ the provider form
\* initApp, lines 52-74 and 413-418: the provider and the resolutions restored
\* from storage, the model selects filled, the resolution controls gated when
\* the provider is google (otherwise left as the page's markup has them), the
\* sliders set.
FormStart ==
    /\ autoState = InitAutoState
    /\ autoLoopController = [isRunning |-> FALSE]
    /\ currentMode = "edit"
    /\ apiKey \in {"", "key"}
    /\ selectedFile = FALSE
    /\ btnDisabled = [m \in Modes |-> FALSE]
    /\ loops = EmptyBag
    /\ session = NoSession
    /\ stopHistory = FALSE
    /\ frames = <<>> /\ tail = FALSE /\ body = <<>> /\ DecoderIdle
    /\ FeedIdle
    /\ page = [pc |-> "ready", fetched |-> "ok", error |-> <<>>, uncaught |-> FALSE]
    /\ formData = <<>>
    /\ currentProvider \in Providers
    /\ providerModelPreferences = [p \in Providers |-> [mode \in Modes |-> ""]]
    /\ modelSelect = updateModelSelectors([mode \in Modes |-> ""], currentProvider, appConfig,
                                          providerModelPreferences)
    /\ \E restored \in [Modes -> Resolutions], markup \in BOOLEAN :
         resolutionSelect =
           [mode \in Modes |->
              updateResolutionAvailability([disabled |-> markup, value |-> restored[mode]],
                                           modelSelect[mode], currentProvider, appConfig)]
    /\ slider = [mode \in Modes |-> refreshAutoConcurrencyUI(currentProvider, modelSelect[mode])]
    /\ timer = NoTimer

\* Capability gating, under every table of model support.
FormInit ==
    /\ appConfig = "backend"
    /\ modelSupport \in [GoogleModels -> BOOLEAN]
    /\ FormStart

FormNext ==
    \/ \E provider \in Providers : ProviderChange(provider) /\ UNCHANGED <<decVars, feedVars, stopHistory, configVars, streams>>
    \/ \E mode \in Modes, model \in Models :
         ModelChange(mode, model) /\ UNCHANGED <<decVars, feedVars, stopHistory, configVars, streams>>
    \/ \E mode \in Modes, value \in Resolutions :
         ResolutionPick(mode, value) /\ UNCHANGED <<decVars, feedVars, stopHistory, configVars, streams>>

FormSpec == FormInit /\ [][FormNext]_vars

\* The requests built from the form, under either capability table.
RequestModels == {FlashPreview, ProId}

RequestInit ==
    /\ appConfig \in ConfigNames
    /\ modelSupport = [m \in GoogleModels |-> m = ProId]
    /\ FormStart

RequestNext ==
    \/ \E provider \in Providers : ProviderChange(provider) /\ UNCHANGED <<decVars, feedVars, stopHistory, configVars, streams>>
    \/ \E mode \in Modes, model \in RequestModels :
         ModelChange(mode, model) /\ UNCHANGED <<decVars, feedVars, stopHistory, configVars, streams>>
    \/ \E mode \in Modes, value \in Resolutions :
         ResolutionPick(mode, value) /\ UNCHANGED <<decVars, feedVars, stopHistory, configVars, streams>>
    \/ \E mode \in Modes, aspectRatio \in AspectRatios : BuildRequest(mode, aspectRatio)

RequestSpec == RequestInit /\ [][RequestNext]_vars

\* ------------------------------------- the options of the resolution control
\* The values the resolution <select> offers: initGoogleImageOptions fills
\* it with the default entry and imageOptions.resolutions of the table; a
\* table without imageOptions leaves it as the page has it, with no
\* resolution to choose.
resolutionOptions(config) == IF hasImageOptions(config) THEN Resolutions ELSE {""}

\* The page after initApp, a control holding only a value it offers.
OptionInit ==
    /\ RequestInit
    /\ \A mode \in Modes : resolutionSelect[mode].value \in resolutionOptions(appConfig)

\* The user picks one of the values the control offers.
OptionPick(mode, value) ==
    /\ value \in resolutionOptions(appConfig)
    /\ ResolutionPick(mode, value)

OptionNext ==
    \/ \E provider \in Providers : ProviderChange(provider) /\ UNCHANGED <<decVars, feedVars, stopHistory, configVars, streams>>
    \/ \E mode \in Modes, model \in RequestModels :
         ModelChange(mode, model) /\ UNCHANGED <<decVars, feedVars, stopHistory, configVars, streams>>
    \/ \E mode \in Modes, value \in Resolutions :
         OptionPick(mode, value) /\ UNCHANGED <<decVars, feedVars, stopHistory, configVars, streams>>
    \/ \E mode \in Modes, aspectRatio \in AspectRatios : BuildRequest(mode, aspectRatio)

OptionSpec == OptionInit /\ [][OptionNext]_vars

\* The page from its load on: the configuration fetched, the handlers of
\* the provider form and of the API key bound once initApp is over.
ConfigInit ==
    /\ autoState = InitAutoState
    /\ autoLoopController = [isRunning |-> FALSE]
    /\ currentMode = "edit"
    /\ apiKey = ""
    /\ selectedFile = FALSE
    /\ modelSelect = [mode \in Modes |-> ""]
    /\ btnDisabled = [m \in Modes |-> FALSE]
    /\ loops = EmptyBag
    /\ session = NoSession
    /\ stopHistory = FALSE
    /\ frames = <<>> /\ tail = FALSE /\ body = <<>> /\ DecoderIdle
    /\ FeedIdle
    /\ currentProvider = "google"
    /\ providerModelPreferences = [p \in Providers |-> [mode \in Modes |-> ""]]
    /\ \E markup \in BOOLEAN :
         resolutionSelect = [mode \in Modes |-> [disabled |-> markup, value |-> ""]]
    /\ slider = [mode \in Modes |-> 1]
    /\ timer = NoTimer
    /\ modelSupport = [m \in GoogleModels |-> m = ProId]
    /\ appConfig = "null"
    /\ page = [pc |-> "loading", fetched |-> "none", error |-> <<>>, uncaught |-> FALSE]
    /\ formData = <<>>

ConfigNext ==
    \/ \E outcome \in FetchOutcomes, stored \in StoredProviders, key \in {"", "key"},
          restored \in [Modes -> Resolutions] : InitApp(outcome, stored, key, restored)
    \/ \E provider \in Providers :
         /\ page.pc = "ready"
         /\ ProviderChange(provider) /\ UNCHANGED <<decVars, feedVars, stopHistory, configVars, streams>>
    \/ \E mode \in Modes, model \in RequestModels :
         /\ page.pc = "ready"
         /\ ModelChange(mode, model) /\ UNCHANGED <<decVars, feedVars, stopHistory, configVars, streams>>
    \/ page.pc = "ready" /\ SaveApiKey /\ UNCHANGED notSchedVars
    \/ page.pc = "ready" /\ SaveApiKeyThrows
    \/ page.pc = "ready" /\ DeleteApiKey /\ UNCHANGED notSchedVars

ConfigSpec == ConfigInit /\ [][ConfigNext]_vars

\* The delay between iterations, under one table of model support.
DelayInit ==
    /\ appConfig = "backend"
    /\ modelSupport = [m \in GoogleModels |-> m = Pro]
    /\ FormStart

DelayNext ==
    \/ \E provider \in Providers : ProviderChange(provider) /\ UNCHANGED <<decVars, feedVars, stopHistory, configVars, streams>>
    \/ \E mode \in Modes, model \in Models :
         ModelChange(mode, model) /\ UNCHANGED <<decVars, feedVars, stopHistory, configVars, streams>>
    \/ \E mode \in Modes, n \in 1..5 : SliderInput(mode, n) /\ UNCHANGED <<decVars, feedVars, stopHistory, configVars, streams>>
    \/ \E mode \in Modes : SetDelay(mode) /\ UNCHANGED <<decVars, feedVars, stopHistory, configVars, streams>>

DelaySpec == DelayInit /\ [][DelayNext]_vars

\* ------------------------------------------ an AUTO loop and its form
\* The AUTO loop of the displayed mode reads its slider (line 159) and, when
\* its request has completed, the provider, the model and the slider again
\* (lines 217-229), while the user changes the form.
PaceModels == {Flash, Pro}

\* The page as it starts with nothing in storage but a key.
PaceInit ==
    /\ DelayInit
    /\ currentProvider = "google"
    /\ apiKey = "key"

formKept == UNCHANGED <<currentProvider, providerModelPreferences, resolutionSelect, slider,
                        modelSupport>>

\* Click on the submit button: with AUTO on and a valid form, the loop
\* starts with the value of the slider.
PaceSubmitClick ==
    /\ ~btnDisabled[currentMode]
    /\ \E in \in Inputs :
         IF isAutoEnabled(autoState) /\ TaskParams(currentMode, in).ok
         THEN /\ startAutoLoop(currentMode, in, slider[currentMode])
              /\ UNCHANGED <<currentMode, apiKey, selectedFile, modelSelect>>
         ELSE handleSubmit(currentMode, in)
    /\ formKept /\ UNCHANGED timer

\* Lines 170-242 in one turn: the outcome is counted and, unless the loop
\* breaks, the timer of the delay is set.
PaceRequestComplete(a) ==
    /\ a.kind = "auto" /\ a.pc = "request"
    /\ \E outcome \in Outcomes(a.imageCount) :
         /\ RequestCompletes(a, outcome)
         /\ timer' = IF IterationEnd(autoState, session, a.mode, a.imageCount,
                                     outcome).pc = "delay"
                      THEN delayTimer(a.mode) ELSE timer
    /\ UNCHANGED <<currentMode, apiKey, selectedFile, modelSelect>>
    /\ formKept

\* The timer fires: the loop-top test, the slider read, and either the
\* request is sent or the iteration fails at once and sets the next timer.
PaceDelayElapsed(a) ==
    /\ a.kind = "auto" /\ a.pc = "delay"
    /\ IF LoopContinues(autoState, autoLoopController)
       THEN \E in \in Inputs :
              /\ NextIteration(a, in, slider[a.mode])
              /\ timer' = IF IterationBegin(autoState, session, a.mode, slider[a.mode],
                                            in).pc = "delay"
                           THEN delayTimer(a.mode) ELSE timer
       ELSE LoopExits(a) /\ UNCHANGED timer
    /\ UNCHANGED <<currentMode, apiKey, selectedFile, modelSelect>>
    /\ formKept

PaceNext ==
    \/ AutoToggleClick /\ UNCHANGED notSchedVars
    \/ StopButtonClick /\ UNCHANGED notSchedVars
    \/ SelectFile /\ UNCHANGED notSchedVars
    \/ PaceSubmitClick /\ UNCHANGED <<decVars, feedVars, stopHistory, configVars, streams>>
    \/ \E a \in Live : PaceRequestComplete(a) /\ UNCHANGED <<decVars, feedVars, stopHistory, configVars, streams>>
    \/ \E a \in Live : PaceDelayElapsed(a) /\ UNCHANGED <<decVars, feedVars, stopHistory, configVars, streams>>
    \/ \E a \in Live : ManualComplete(a) /\ UNCHANGED notSchedVars
    \/ \E provider \in Providers : ProviderChange(provider) /\ UNCHANGED <<decVars, feedVars, stopHistory, configVars, streams>>
    \/ \E model \in PaceModels :
         ModelChange(currentMode, model) /\ UNCHANGED <<decVars, feedVars, stopHistory, configVars, streams>>
    \/ \E n \in 1..5 : SliderInput(currentMode, n) /\ UNCHANGED <<decVars, feedVars, stopHistory, configVars, streams>>

PaceSpec == PaceInit /\ [][PaceNext]_vars

\* ------------------------------------------- the loops, served fairly
\* The page with a key saved, every stop recorded.
LiveInit ==
    /\ StopInit
    /\ apiKey = "key"

\* The request some loop awaits is answered; the timer some loop awaits fires.
RequestAnswered == \E a \in Live : RequestComplete(a) /\ UNCHANGED notSchedVars
TimerFires == \E a \in Live : DelayElapsed(a) /\ UNCHANGED notSchedVars

LiveNext ==
    \/ SubmitClick /\ UNCHANGED notSchedVars
    \/ CtrlEnter /\ UNCHANGED notSchedVars
    \/ AutoToggleClick /\ UNCHANGED notSchedVars
    \/ StopButtonClick /\ UNCHANGED notSchedVars
    \/ SelectFile /\ UNCHANGED notSchedVars
    \/ RequestAnswered
    \/ TimerFires
    \/ \E a \in Live : ManualComplete(a) /\ UNCHANGED notSchedVars

\* Every request in flight is answered and every timer fires: the browser
\* runs a ready continuation, whatever else is queued.
LiveSpec == LiveInit /\ [][LiveNext]_vars /\ WF_vars(RequestAnswered) /\ WF_vars(TimerFires)

\* ------------------------------------ the streamed requests of AUTO loops
\* The request of an AUTO iteration is streamed (useStream: true, line 172):
\* its images arrive one by one through the callback of runTaskOnce while the
\* loop awaits the result.  stopped says that stopAutoLoop ran while the
\* stream was open, stoppedAt how many images it had delivered by then; of a
\* stream that has ended only the number of its images is kept.
AutoStream(mode, N) ==
    [mode |-> mode, asked |-> N, images |-> 0, status |-> "open", stopped |-> FALSE,
     stoppedAt |-> 0]

\* The feed as k images of earlier iterations left it.
Earlier(k) == [j \in 1..k |-> [task |-> 0, index |-> j]]

StreamInit ==
    /\ SchedInit
    /\ apiKey = "key"
    /\ stopHistory = TRUE
    /\ FormIdle
    /\ frames = <<>> /\ tail = FALSE /\ body = <<>> /\ DecoderIdle
    /\ ConfigIdle
    /\ streams = <<>>
    /\ \E k \in {0, MAX_IMAGES - 1} :
         /\ results = [m \in Modes |->
                         IF k = 0 THEN Placeholder ELSE [gallery |-> TRUE, items |-> Earlier(k)]]
         /\ arrived = [m \in Modes |-> [images |-> k, calls |-> k]]

\* The requests of AUTO iterations this step sends.
Sent == {b \in BagToSet(loops') :
           b.kind = "auto" /\ b.pc = "request" /\ CopiesIn(b, loops') > CopiesIn(b, loops)}

\* runTaskOnce, lines 70-73 (116-119): the stream of a request sent opens.
StreamOpens ==
    IF Sent # {}
    THEN /\ Len(streams) < MaxTasks
         /\ \E b \in Sent : streams' = Append(streams, AutoStream(b.mode, b.imageCount))
    ELSE UNCHANGED streams

\* stopAutoLoop aborts every open stream
StoppedNow_Abort(ss) ==
    [i \in DOMAIN ss |->
       IF ss[i].status = "open"
       THEN [ss[i] EXCEPT !.status = "failed", !.stopped = TRUE, !.stoppedAt = ss[i].images]
       ELSE ss[i]]
\* stopAutoLoop, lines 255-273, holds no handle on a request: the open
\* streams stay open, here with the note that the stop ran.
StoppedNow(ss) ==
    [i \in DOMAIN ss |->
       IF ss[i].status = "open" /\ ~ss[i].stopped
       THEN [ss[i] EXCEPT !.stopped = TRUE, !.stoppedAt = ss[i].images]
       ELSE ss[i]]

\* Click on the submit button while AUTO is on.
StreamSubmitClick ==
    /\ isAutoEnabled(autoState)
    /\ SubmitClick
    /\ StreamOpens
    /\ UNCHANGED <<results, arrived, decVars, formVars, stopHistory, configVars>>

StreamToggleClick ==
    /\ streams' = IF isAutoEnabled(autoState) THEN StoppedNow(streams) ELSE streams
    /\ AutoToggleClick
    /\ UNCHANGED <<results, arrived, decVars, formVars, stopHistory, configVars>>

StreamStopClick ==
    /\ streams' = StoppedNow(streams)
    /\ StopButtonClick
    /\ UNCHANGED <<results, arrived, decVars, formVars, stopHistory, configVars>>

\* The callback of runTaskOnce, for one more image of the images asked for.
StreamImageArrives(i) ==
    /\ "asked" \in DOMAIN streams[i]
    /\ streams[i].images < streams[i].asked
    /\ ImageArrives(i)

\* The stream of the request of the loop `a` ends and the loop goes on from
\* its await: success needs an image and no error frame, and counts the
\* images the callback collected (result.images, lines 78-83 and 175-184).
StreamEnds(i, a) ==
    /\ streams[i].status = "open"
    /\ a.kind = "auto" /\ a.pc = "request"
    /\ a.mode = streams[i].mode /\ a.imageCount = streams[i].asked
    /\ a.mark = "live" => ~streams[i].stopped
    /\ a.mark = "stopped" => streams[i].stopped
    /\ \E outcome \in Outcomes(a.imageCount) :
         /\ outcome.kind = "ok" => outcome.r = streams[i].images
         /\ RequestCompletes(a, outcome)
    /\ streams' = [streams EXCEPT ![i] = [AutoStream(a.mode, 0) EXCEPT
                                             !.images = streams[i].images,
                                             !.status = "ended"]]
    /\ UNCHANGED <<currentMode, apiKey, selectedFile, modelSelect>>
    /\ UNCHANGED <<results, arrived, decVars, formVars, stopHistory, configVars>>

StreamDelayElapsed(a) ==
    /\ DelayElapsed(a)
    /\ StreamOpens
    /\ UNCHANGED <<results, arrived, decVars, formVars, stopHistory, configVars>>

StreamNext ==
    \/ StreamSubmitClick
    \/ StreamToggleClick
    \/ StreamStopClick
    \/ SelectFile /\ UNCHANGED notSchedVars
    \/ \E i \in DOMAIN streams : StreamImageArrives(i)
    \/ \E i \in DOMAIN streams, a \in Live : StreamEnds(i, a)
    \/ \E a \in Live : StreamDelayElapsed(a)

StreamSpec == StreamInit /\ [][StreamNext]_vars

\* The forms while AUTO is never switched on: every submit validates the
\* form and starts one manual task; a provider change swaps the credential.
ManualInit == DelayInit

ManualNext ==
    \/ SubmitClick /\ UNCHANGED notSchedVars
    \/ CtrlEnter /\ UNCHANGED notSchedVars
    \/ \E mode \in Modes : SwitchMode(mode) /\ UNCHANGED notSchedVars
    \/ SelectFile /\ UNCHANGED notSchedVars
    \/ SaveApiKey /\ UNCHANGED notSchedVars
    \/ DeleteApiKey /\ UNCHANGED notSchedVars
    \/ \E a \in Live : ManualComplete(a) /\ UNCHANGED notSchedVars
    \/ \E provider \in Providers :
         ProviderChange(provider) /\ UNCHANGED <<decVars, feedVars, stopHistory, configVars, streams>>

ManualSpec == ManualInit /\ [][ManualNext]_vars

\* ------------------------------------------------ properties: AUTO scheduler
\* Number of AUTO loops alive (suspended at the request or at the delay).
AutoLoopCount == BagCardinality([a \in AutoLoops |-> CopiesIn(a, loops)])

Stats == getAutoStats(autoState)

\* C1: in one AUTO session (startAutoLoop called while no other loop is
\* alive, until stop), after any number of iterations, total is the sum of
\* the slider values k_i of the iterations begun, success the sum of the
\* numbers r_i of images of the successful iterations, fail the sum of the
\* k_i of the failed iterations (result.success false, or an exception).
AutoAccounting ==
    session.clean =>
        /\ Stats.total = session.sumK
        /\ Stats.success = session.sumR
        /\ Stats.fail = session.sumFailK

\* A session with a successful iteration that returned fewer images than
\* asked for, a failed iteration of more than one image, nothing in flight.
AutoAccountingWitness ==
    /\ session.clean
    /\ RequestsInFlight = {}
    /\ session.sumR >= 1
    /\ session.sumFailK >= 2

\* C2: in every reachable state success + fail <= total, also when stop or
\* a new start happens while a request is in flight and completes later.
SuccessPlusFailAtMostTotal == Stats.success + Stats.fail <= Stats.total

\* C3 as stated, within one session: whenever no iteration is in flight
\* (the loop is in its delay or has ended), success + fail = total.
SettledStatsEqualTotal ==
    (session.clean /\ RequestsInFlight = {}) => Stats.success + Stats.fail = Stats.total

\* C3 amended: in one session, whenever no iteration is in flight, total
\* exceeds success + fail by exactly the number of images the successful
\* iterations asked for and did not get; while a request is in flight, by
\* that number plus the slider value of the iteration in flight.
SettledStatsShortfall ==
    session.clean =>
        /\ session.sumSuccK >= session.sumR
        /\ RequestsInFlight = {} =>
              Stats.total - (Stats.success + Stats.fail) = session.sumSuccK - session.sumR
        /\ \A a \in RequestsInFlight :
              Stats.total - (Stats.success + Stats.fail)
                  = (session.sumSuccK - session.sumR) + a.imageCount

\* The loop is in its delay after an iteration that asked for 2 images and got 1.
SettledStatsShortfallWitness ==
    /\ session.clean
    /\ RequestsInFlight = {}
    /\ AutoLoops # {}
    /\ session.sumSuccK = 2
    /\ session.sumR = 1
    /\ Stats.total = 2

\* C9: from any state, stopAutoLoop gives total = success = fail = 0,
\* running = false, enabled = false, mode = null, an empty session image
\* list and both loop flags false, and a second stopAutoLoop changes nothing.
StopIdempotent ==
    LET once == stopAutoLoopState(autoState, autoLoopController)
        twice == stopAutoLoopState(once.autoState, once.autoLoopController)
    IN /\ twice = once
       /\ once.autoState = InitAutoState
       /\ ~once.autoState.running
       /\ ~once.autoLoopController.isRunning

\* stopAutoLoop has acted on a session with counted images and a request in
\* flight: the state is the one a second stop would leave.
StopIdempotentWitness ==
    /\ autoState = InitAutoState
    /\ ~autoLoopController.isRunning
    /\ RequestsInFlight # {}

\* C10: at most one AUTO loop is alive at any time, whatever the sequence
\* of submit clicks, Ctrl+Enter, AUTO toggles and stop clicks.
AtMostOneAutoLoop == AutoLoopCount <= 1

\* ------------------------------------------------ properties: stream decoder
\* The positions of the frames of a kind, in the order of the stream.
PositionsOf(kind) ==
    SelectSeq([p \in 1..Len(frames) |-> p], LAMBDA p : frames[p] = kind)

\* The image records the newline-terminated frames carry, in stream order.
ImagesSent == [i \in 1..Len(PositionsOf("image")) |-> Digit[PositionsOf("image")[i]]]

\* The locals and the buffer after the given text arrived as one chunk.
Unsplit(text) == decodeChunk(<<>>, DecoderState(0, FALSE, "", <<>>), text)

\* C4: however the body is split into chunks, also inside a frame or inside
\* the 'data: ' prefix, the decoder is, after each chunk, where it would be
\* had everything read so far arrived as one chunk: same callback
\* invocations in the same order, same counters, same held-back text; and it
\* returns what it returns for the unsplit body.  For two image frames
\* followed by 'data: [DONE]' that is 2 invocations in frame order and
\* {success: true, totalReceived: 2}.
ChunkSplitInvariance ==
    /\ fetchPc \in {"reading", "done"} =>
          /\ CurrentDecoderState = Unsplit(SubSeq(body, 1, pos)).st
          /\ buffer = Unsplit(SubSeq(body, 1, pos)).buffer
    /\ fetchPc = "done" =>
          /\ pos = Len(body)
          /\ result = decoderResult(Unsplit(body).st)
          /\ (frames = <<"image", "image", "done">> /\ ~tail) =>
                /\ callbacks = <<"1", "2">>
                /\ result = [success |-> TRUE, error |-> "", totalReceived |-> 2]

\* Of two image frames and [DONE], a chunk ended inside the 'data: ' prefix
\* of the second frame: the first image was forwarded, "dat" is held back.
ChunkSplitInvarianceWitness ==
    /\ fetchPc = "reading"
    /\ frames = <<"image", "image", "done">>
    /\ ~tail
    /\ callbacks = <<"1">>
    /\ buffer = <<"d", "a", "t">>

\* C5: when the stream has one error frame, every image frame before and
\* after it is forwarded exactly once, in order; the error frame is neither
\* forwarded nor counted; the result is success = false with the message of
\* the error frame.
ErrorFrameDoesNotAbort ==
    (fetchPc = "done" /\ Len(PositionsOf("error")) = 1) =>
        /\ callbacks = ImagesSent
        /\ totalReceived = Len(ImagesSent)
        /\ result = [success |-> FALSE,
                     error |-> Letter[PositionsOf("error")[1]],
                     totalReceived |-> Len(ImagesSent)]

\* An image frame, an error frame, an image frame: both images forwarded.
ErrorFrameDoesNotAbortWitness ==
    /\ fetchPc = "done"
    /\ frames = <<"image", "error", "image">>
    /\ callbacks = <<"1", "3">>
    /\ result.error = "b"

\* C6: the result has success = true exactly when no frame carried an error
\* and at least one image frame was received; totalReceived is the number of
\* callback invocations.
SuccessIffImagesAndNoError ==
    fetchPc = "done" =>
        /\ result.success <=> (PositionsOf("error") = <<>> /\ PositionsOf("image") # <<>>)
        /\ result.totalReceived = Len(callbacks)

\* Three image frames, none lost: success with totalReceived = 3.
SuccessIffImagesAndNoErrorWitness ==
    /\ fetchPc = "done"
    /\ result.success
    /\ result.totalReceived = 3
    /\ Len(callbacks) = 3

\* C7: a frame whose payload is not valid JSON is skipped: the decoder
\* returns a result, the frame changes neither totalReceived nor the error
\* status, and the well-formed frames after it are decoded and forwarded.
MalformedFrameSkipped ==
    (fetchPc \in {"reading", "done"} /\ pos = Len(body) /\ PositionsOf("malformed") # <<>>) =>
        /\ callbacks = ImagesSent
        /\ totalReceived = Len(ImagesSent)
        /\ hasError <=> PositionsOf("error") # <<>>
        /\ hasError =>
              errorMessage = Letter[PositionsOf("error")[Len(PositionsOf("error"))]]

\* A malformed frame between two image frames: both images forwarded and
\* the decode succeeds.
MalformedFrameSkippedWitness ==
    /\ fetchPc = "done"
    /\ frames = <<"image", "malformed", "image">>
    /\ callbacks = <<"1", "3">>
    /\ result = [success |-> TRUE, error |-> "", totalReceived |-> 2]

\* ------------------------------------------------ properties: result feed
\* The last n of the images 1..total, oldest first.
LastArrived(total, n) == [i \in 1..n |-> total - n + i]

Min(a, b) == IF a <= b THEN a ELSE b

\* C8: after any sequence of AUTO-mode appends, in batches of any size, the
\* feed of a mode holds at most 20 entries: the most recently appended
\* min(20, number appended) images, in arrival order.  25 appends of one
\* image each leave exactly the images 6 to 25, in order.
BoundedFeed ==
    \A mode \in Modes :
        LET items == results[mode].items
            n == arrived[mode].images
        IN /\ Len(items) <= MAX_IMAGES
           /\ items = LastArrived(n, Min(MAX_IMAGES, n))
           /\ (n = 25 /\ arrived[mode].calls = 25) => items = [i \in 1..20 |-> i + 5]

\* 25 images were appended to the edit feed one at a time: the first five
\* were removed.
BoundedFeedWitness ==
    /\ arrived["edit"].images = 25
    /\ arrived["edit"].calls = 25
    /\ Len(results["edit"].items) = MAX_IMAGES
    /\ results["edit"].items[1] = 6
    /\ results["edit"].items[MAX_IMAGES] = 25

\* ------------------------------------------------- stop and the old loop
\* C11: once stopAutoLoop has run, a loop that was alive then ends with the
\* request or the delay it is in and begins no further iteration, whatever
\* is clicked in the meantime.
StoppedLoopBeginsNoIteration == \A a \in AutoLoops : a.mark # "resumed"

\* ------------------------------------------------- failures in the loop
\* The loops whose delay timer, firing now, begins an iteration.
AboutToIterate == {a \in AutoLoops : a.pc = "delay" /\ LoopContinues(autoState, autoLoopController)}

\* C12: an error thrown in an iteration whose message contains 'API Key' or
\* the configuration word (the credential deleted mid-loop is one) adds the
\* iteration's N to fail and ends the loop at once: no request, no delay, no
\* further iteration.
FatalErrorEndsLoop ==
    /\ apiKey = "" =>
         \A mode \in {a.mode : a \in AboutToIterate}, in \in Inputs, N \in SliderValues :
           (trim(in.text) # <<>> /\ (mode = "edit" => selectedFile)) =>
              LET it == IterationBegin(autoState, session, mode, N, in)
              IN /\ it.pc = "fatal"
                 /\ it.request = NoRequest
                 /\ it.as.stats.fail = autoState.stats.fail + N
                 /\ it.as.stats.success = autoState.stats.success
    /\ \A a \in RequestsInFlight : \A message \in {MsgNoApiKey, <<"config">>} :
         LET it == IterationEnd(autoState, session, a.mode, a.imageCount,
                                [kind |-> "thrown", r |-> 0, message |-> message])
         IN /\ it.pc = "fatal"
            /\ it.as.stats.fail = autoState.stats.fail + a.imageCount

\* The loop of an undisturbed session has ended on the missing credential:
\* the running flag is still set, the failed iteration is counted.
FatalErrorEndsLoopWitness ==
    /\ session.clean /\ isAutoRunning(autoState) /\ ~autoLoopController.isRunning
    /\ AutoLoops = {} /\ apiKey = "" /\ session.ended = "fatal"
    /\ autoState.stats.fail > 0 /\ autoState.stats.success > 0

FailedIteration(before, it, mode, N) ==
    /\ it.as.stats.fail = before.stats.fail + N
    /\ it.as.stats.success = before.stats.success
    /\ it.as.sessionImages = before.sessionImages
    /\ it.request = NoRequest
    /\ it.pc = AfterIteration(mode)
    /\ modelSelect[mode] # "" => it.pc = "delay"

ReportedErrorStopsLoopIffFatal ==
    \A a \in RequestsInFlight : \A message \in {MsgBackend, MsgBackendApiKey} :
      LET it == IterationEnd(autoState, session, a.mode, a.imageCount,
                             [kind |-> "failed", r |-> 0, message |-> message])
      IN /\ it.as.stats.fail = autoState.stats.fail + a.imageCount
         /\ it.pc = "fatal" <=> isFatalMessage(message)

\* ------------------------------------------------------------ validation
\* C16: getTaskParams only reads; it fails exactly when, in edit mode, no
\* image is selected, the trimmed instruction is empty or no credential is
\* stored, and in generate mode when the trimmed description is empty or no
\* credential is stored; otherwise it returns the bundle of what it read.
GetTaskParamsFailsExactly ==
    \A mode \in Modes, in \in Inputs :
      LET p == TaskParams(mode, in)
          noImage == mode = "edit" /\ ~selectedFile
          noText == trim(in.text) = <<>>
          noKey == apiKey = ""
      IN /\ ~p.ok <=> (noImage \/ noText \/ noKey)
         /\ ~p.ok => /\ p.params = NoParams
                     /\ p.message = MsgNoImage => noImage
                     /\ p.message \in {MsgNoInstruction, MsgNoDescription} => noText
                     /\ p.message = MsgNoApiKey => noKey
                     /\ p.message \in {MsgNoImage, MsgNoInstruction, MsgNoDescription,
                                       MsgNoApiKey}
         /\ p.ok => /\ p.message = NoMessage
                    /\ p.params.prompt = trim(in.text) /\ p.params.prompt # <<>>
                    /\ p.params.imageCount = in.count
                    /\ p.params.apiKey = apiKey
                    /\ p.params.selectedFile = (mode = "edit")

\* A generate task passed validation with no image selected and is in
\* flight, while the edit form fails validation whatever it holds.
GetTaskParamsFailsExactlyWitness ==
    /\ ~selectedFile /\ apiKey = "key"
    /\ \E a \in Live : a.mode = "generate" /\ a.pc = "request"
    /\ \A in \in Inputs : ~TaskParams("edit", in).ok
    /\ \E in \in Inputs : TaskParams("generate", in).ok

\* C17: no request goes to the backend, from a manual task or from an AUTO
\* iteration, unless validation passed when it was built: it carries a
\* non-empty prompt, a non-empty credential and, in edit mode, an image; an
\* iteration whose validation fails issues none.
NoRequestWithoutValidation ==
    /\ \A a \in Live :
         IF a.pc = "request"
         THEN /\ a.request.prompt # <<>>
              /\ a.request.api_key # ""
              /\ a.mode = "edit" => a.request.image
              /\ a.request.image_count >= 1
         ELSE a.request = NoRequest

\* The request of an AUTO iteration is in flight and the credential it was
\* built with has been deleted since.
NoRequestWithoutValidationWitness ==
    /\ apiKey = ""
    /\ \E a \in RequestsInFlight : a.request.api_key = "key" /\ a.mark = "live"
    /\ autoState.stats.success > 0

\* C19: the request of every AUTO iteration asks for the slider value N read
\* at the top of that iteration, the N added to total, whatever the manual
\* count field holds; a manual task asks for the count field's value.
RequestedCountIsSliderValue ==
    /\ \A a \in Live : a.pc = "request" =>
         IF a.kind = "auto"
         THEN a.request.image_count = a.imageCount /\ a.imageCount \in SliderValues
         ELSE a.request.image_count \in CountValues
    /\ session.clean => \A a \in RequestsInFlight :
         autoState.stats.total - a.imageCount
            = session.sumSuccK + session.sumFailK

\* An AUTO request for the slider value and a manual request for the count
\* field's value are in flight together.
RequestedCountIsSliderValueWitness ==
    /\ \E a \in RequestsInFlight : a.request.image_count = MaxSlider
    /\ \E a \in Live : a.kind = "manual" /\ a.request.image_count = MaxSlider + 1

\* ------------------------------------------------------------ the delay
\* d = base * max(1, n / recommended), on fractions
IsDelayOf(d, rule, n) ==
    /\ d.den > 0
    /\ d.num >= rule.delay * d.den
    /\ n <= rule.recommended => d.num = rule.delay * d.den
    /\ n > rule.recommended => d.num * rule.recommended = rule.delay * n * d.den

ResolutionGated ==
    \A mode \in Modes :
      LET supported == /\ currentProvider = "google"
                       /\ modelSelect[mode] \in DOMAIN modelSupport
                       /\ modelSupport[modelSelect[mode]]
      IN /\ resolutionSelect[mode].disabled = ~supported
         /\ ~supported => resolutionSelect[mode].value = ""

\* ------------------------------------------- the request's image fields
\* C21: a request carries a resolution exactly when (so only when) the
\* provider is google, a non-empty resolution is chosen and the resolution
\* control is not disabled, and then the one chosen; it carries an aspect
\* ratio exactly when the provider is google and a non-empty one is chosen;
\* a request of another provider carries neither.
ImageFieldsGated ==
    \A i \in DOMAIN formData :
      LET r == formData[i]
          withResolution == /\ r.provider = "google"
                            /\ r.control.value # ""
                            /\ ~r.control.disabled
          withAspectRatio == r.provider = "google" /\ r.aspectRatio # ""
      IN /\ ("resolution" \in DOMAIN r.fields) = withResolution
         /\ ("aspect_ratio" \in DOMAIN r.fields) = withAspectRatio
         /\ withResolution => r.fields["resolution"] = r.control.value
         /\ withAspectRatio => r.fields["aspect_ratio"] = r.aspectRatio
         /\ r.provider # "google" => DOMAIN r.fields = {}

\* A google request was built while the resolution control was disabled with
\* a resolution still in it: it carries the aspect ratio alone.
ImageFieldsGatedWitness ==
    \E i \in DOMAIN formData :
      /\ formData[i].provider = "google"
      /\ formData[i].control = [disabled |-> TRUE, value |-> "2K"]
      /\ DOMAIN formData[i].fields = {"aspect_ratio"}

\* ------------------------------------------------ loading the configuration
\* C22: loadConfiguration never fails: when the fetch rejects, the body is
\* not JSON or the payload says success = false, it answers success = true
\* with the fallback table and usingFallback = true; initApp stores that
\* table, shows the warning and goes on.
FallbackOnFailure ==
    /\ \A outcome \in FetchOutcomes :
         LET loaded == loadConfiguration(outcome)
         IN /\ loaded.success
            /\ outcome # "ok" => loaded.config = "fallback" /\ loaded.usingFallback
    /\ page.pc = "ready" /\ page.fetched # "ok"
         => /\ appConfig = "fallback"
            /\ page.error = MsgUsingFallback
            /\ currentProvider \in Providers => modelSelect["edit"] \in ModelsOf(currentProvider)

\* The fetch was rejected, and the page went on under the fallback table: the
\* user has switched to tuzi and saved a key.
FallbackOnFailureWitness ==
    /\ page.fetched = "rejected" /\ page.error = MsgUsingFallback
    /\ appConfig = "fallback"
    /\ currentProvider = "tuzi" /\ modelSelect["edit"] = FlashId /\ apiKey = "key"

ProviderMissNeverThrows == ~page.uncaught

\* --------------------------------------------------- the concurrency rules
\* The lookup by the exact provider/model string, then by the provider
\* alone, then the global default.
ruleCascade(provider, model) ==
    LET exact == provider \o "/" \o model
    IN IF exact \in DOMAIN CONCURRENCY_RULES THEN CONCURRENCY_RULES[exact]
       ELSE IF provider \in DOMAIN CONCURRENCY_RULES THEN CONCURRENCY_RULES[provider]
       ELSE CONCURRENCY_RULES["default"]

\* C25: for the provider and the model of each mode, getConcurrencyRule
\* answers the rule keyed by the exact provider/model string when the table
\* has one, else the rule keyed by the provider when the table has one, else
\* the global default; it always answers a rule of the table.
RuleLookupCascade ==
    \A mode \in Modes :
      LET rule == getConcurrencyRule(currentProvider, modelSelect[mode])
      IN /\ rule \in {CONCURRENCY_RULES[key] : key \in DOMAIN CONCURRENCY_RULES}
         /\ rule = ruleCascade(currentProvider, modelSelect[mode])

\* C26: the rows of the README's table, with the model ids the README
\* lists: google with gemini-2.5-flash-image has 4 / 5 / 1000 ms, google with
\* gemini-3-pro-image-preview 1 / 1 / 3500 ms, openrouter with any model
\* 3 / 4 / 1000 ms, tuzi with any model 5 / 5 / 500 ms.
ReadmeRows ==
    /\ \A model \in Models :
         /\ getConcurrencyRule("openrouter", model) = Rule(3, 4, 1000)
         /\ getConcurrencyRule("tuzi", model) = Rule(5, 5, 500)
    /\ \A mode \in Modes :
         LET rule == getConcurrencyRule(currentProvider, modelSelect[mode])
         IN /\ currentProvider = "google" /\ modelSelect[mode] = FlashId
                 => rule = Rule(4, 5, 1000)
            /\ currentProvider = "google" /\ modelSelect[mode] = ProId
                 => rule = Rule(1, 1, 3500)
            /\ currentProvider = "openrouter" => rule = Rule(3, 4, 1000)
            /\ currentProvider = "tuzi" => rule = Rule(5, 5, 500)

\* ------------------------------------------------ stop while nothing runs
\* C27, as first stated: stopAutoLoop while no loop is running (running =
\* false), also when AUTO is toggled on but not started, leaves enabled,
\* running, mode, the statistics and the session image list unchanged.
StopWhileNotRunningNoOp ==
    ~autoState.running
      => stopAutoLoopState(autoState, autoLoopController).autoState = autoState

\* C27: stopAutoLoop while no loop is running resets the AUTO session state
\* as at any other time (enabled false, running false, mode null, statistics
\* zero, no session image); it changes nothing exactly when the state is
\* already the reset one, and switches AUTO off when it was only toggled on.
StopWhileNotRunningResets ==
    ~autoState.running
      => LET stopped == stopAutoLoopState(autoState, autoLoopController)
         IN /\ stopped.autoState = InitAutoState
            /\ ~stopped.autoLoopController.isRunning
            /\ (stopped.autoState = autoState)
                 = (/\ ~autoState.enabled /\ autoState.mode = "null"
                    /\ autoState.stats = InitAutoState.stats
                    /\ autoState.sessionImages = <<>>)

\* AUTO is toggled on for the generate mode and no loop was started.
StopWhileNotRunningWitness ==
    /\ autoState.enabled /\ ~autoState.running /\ autoState.mode = "generate"
    /\ loops = EmptyBag

\* ------------------------------------------------ the start of a loop
\* C30: startAutoLoop sets running to true, total, success and fail to zero
\* and the session image list to empty before its first iteration, and leaves
\* enabled and mode as they were; so while the first iteration of a session
\* is in flight the statistics hold that iteration's count alone.
StartResetsSession ==
    /\ LET started == autoLoopStarted(autoState)
       IN /\ started.running
          /\ started.stats = [total |-> 0, success |-> 0, fail |-> 0]
          /\ started.sessionImages = <<>>
          /\ started.enabled = autoState.enabled
          /\ started.mode = autoState.mode
    /\ (session.clean /\ session.sumSuccK + session.sumFailK = 0 /\ RequestsInFlight # {})
         => /\ autoState.running
            /\ Stats = [total |-> session.sumK, success |-> 0, fail |-> 0]
            /\ \A a \in RequestsInFlight : a.imageCount = session.sumK
            /\ autoState.sessionImages = <<>>

\* A session ended on a fatal error and left its statistics and images
\* behind, AUTO is still on: the next start has something to reset.
StartResetsSessionWitness ==
    /\ autoState.enabled
    /\ loops = EmptyBag /\ session.ended = "fatal"
    /\ Stats.total > 0 /\ autoState.sessionImages # <<>>
    /\ Stats.total > 0
    /\ autoState.sessionImages # <<>>

\* ------------------------------------------------ the feed of a manual task
\* The images the task `i` forwarded, in the order of their arrival.
ImagesOf(i, n) == [k \in 1..n |-> [task |-> i, index |-> k]]

\* C29: when a manual task ends with success, the feed of its mode holds
\* exactly the images of that task, in the order of their arrival, and
\* nothing of an earlier task.
ManualFeedIsOwnImages ==
    [][\A i \in DOMAIN streams :
         (streams[i].status = "open" /\ streams'[i].status = "ok")
           => results'[streams[i].mode].items = ImagesOf(i, streams[i].images)]_vars

\* ------------------------------------------------ the order of the updates
\* The AUTO iterations begun (total counted) whose success or fail and whose
\* session URLs are still to come.
OpenIterations == BagCardinality([a \in RequestsInFlight |-> CopiesIn(a, loops)])

\* C28: within one streamed response the images reach the render sink in
\* the order of their frames, index unchanged (ChunkSplitInvariance,
\* ErrorFrameDoesNotAbort and MalformedFrameSkipped state it of the decoder);
\* across AUTO iterations every statistics update and session URL of an
\* iteration comes before any of the next: no iteration begins while another
\* is open.
IterationUpdatesInOrder == OpenIterations <= 1

\* ------------------------------------------- the sentinel and the last line
\* The messages of the error frames, in stream order.
ErrorsSent == [i \in 1..Len(PositionsOf("error")) |-> Letter[PositionsOf("error")[i]]]

\* C35: a 'data: [DONE]' frame is neither an image nor an error and does
\* not end the decoding: the read loop ends only when the stream reports
\* done, and of a stream with a sentinel every image frame, before or after
\* it, is forwarded and counted, and an error frame after it sets the error
\* of the result like any other.
SentinelDoesNotStop ==
    /\ fetchPc = "done" => pos = Len(body)
    /\ (fetchPc = "done" /\ PositionsOf("done") # <<>>) =>
          /\ callbacks = ImagesSent
          /\ totalReceived = Len(ImagesSent)
          /\ hasError = (ErrorsSent # <<>>)
          /\ result = IF ErrorsSent # <<>>
                      THEN [success |-> FALSE, error |-> ErrorsSent[Len(ErrorsSent)],
                            totalReceived |-> Len(ImagesSent)]
                      ELSE IF ImagesSent = <<>>
                      THEN [success |-> FALSE, error |-> NoImageMessage, totalReceived |-> 0]
                      ELSE [success |-> TRUE, error |-> "", totalReceived |-> Len(ImagesSent)]

\* The sentinel first, then an image frame and an error frame: the image is
\* forwarded and the error reported.
SentinelDoesNotStopWitness ==
    /\ fetchPc = "done"
    /\ frames = <<"done", "image", "error">>
    /\ callbacks = <<"2">>
    /\ result = [success |-> FALSE, error |-> "c", totalReceived |-> 1]

\* C40: a frame is decoded only once its newline has arrived: a last frame
\* the stream ends without a newline stays in the buffer when the stream
\* reports done; it is not parsed, not forwarded and not counted, and the
\* result is that of the body without it.
UnterminatedFrameDiscarded ==
    /\ (fetchPc = "reading" /\ buffer # <<>>) =>
          CurrentDecoderState = Unsplit(SubSeq(body, 1, pos - Len(buffer))).st
    /\ (fetchPc = "done" /\ tail) =>
          /\ buffer = FrameLine("image", Len(frames) + 1)
          /\ callbacks = ImagesSent
          /\ totalReceived = Len(ImagesSent)
          /\ result = decoderResult(Unsplit(Concat(frames, 1)).st)

\* One terminated image frame and one that lacks its newline: one image
\* forwarded, the second still in the buffer at the end.
UnterminatedFrameDiscardedWitness ==
    /\ fetchPc = "done"
    /\ tail
    /\ frames = <<"image">>
    /\ callbacks = <<"1">>
    /\ buffer = Prefix \o JSONText("2")
    /\ result = [success |-> TRUE, error |-> "", totalReceived |-> 1]

\* ------------------------------------------------ the session state at rest
\* C34: whenever no AUTO loop is executing (initially, after stop, after the
\* loop ended by itself on a fatal error or on a model that could not be
\* read) the session state is Idle: its running flag is false.
IdleWhenNoLoop == AutoLoops = {} => ~isAutoRunning(autoState)

\* C36: from the return of stop() until the next start (the running flag is
\* false exactly then, and before the first start) the statistics are
\* total = success = fail = 0 and the session image list is empty, also
\* after a request that was in flight at the stop has completed.
StatsStayZeroAfterStop ==
    ~isAutoRunning(autoState) =>
        /\ Stats = InitAutoState.stats
        /\ autoState.sessionImages = <<>>

\* C37: whenever control is outside the synchronous sections of the loop
\* body (a request or the delay is awaited, or no loop is alive), the session
\* image list holds as many URLs as stats.success says, whatever the order
\* of starts, stops and completions.
SessionImagesMatchSuccess == Len(autoState.sessionImages) = Stats.success

\* A request in flight at a stop completed with two images afterwards: both
\* are counted and listed although no request is counted in total.
SessionImagesMatchSuccessWitness ==
    /\ ~isAutoRunning(autoState)
    /\ Stats.total = 0
    /\ Stats.success = 2
    /\ Len(autoState.sessionImages) = 2

\* ------------------------------------------------ the count of the delay
\* The step in which the request of the loop `a` completes and the loop
\* goes on to its delay.
GoesToDelay(a) ==
    /\ a \in RequestsInFlight
    /\ loops' = (loops (-) SetToBag({a}))
                   (+) SetToBag({Activation("delay", "auto", a.mode, 0, NoRequest, a.mark)})

\* C32, as stated: the delay of an iteration is computed from the slider
\* value N the iteration counted in total and sent as image count, whatever
\* happened to the slider, the provider or the model while the request was
\* in flight; only the rule is read again.
DelayUsesCommittedCount ==
    [][\A a \in Live :
         GoesToDelay(a) =>
            /\ a.request.image_count = a.imageCount
            /\ timer'.rule = getConcurrencyRule(currentProvider, modelSelect[a.mode])
            /\ timer'.n = a.imageCount
            /\ timer'.ms = delayMs(timer'.rule, a.imageCount)]_vars

\* C32, amended: the request carries the slider value N read at the head of
\* the iteration; the delay is computed from the rule of the provider and
\* model in the form when the request has completed and from the value the
\* slider holds then, which is N only if the slider was left alone.
DelayUsesCurrentCount ==
    [][\A a \in Live :
         GoesToDelay(a) =>
            /\ a.request.image_count = a.imageCount
            /\ timer'.rule = getConcurrencyRule(currentProvider, modelSelect[a.mode])
            /\ timer'.n = slider[a.mode]
            /\ timer'.ms = delayMs(timer'.rule, slider[a.mode])]_vars

\* The only iteration of the session asked for one image; the slider was
\* moved to 3 while the request was in flight, and the delay is that of 3.
DelayUsesCurrentCountWitness ==
    /\ session.clean
    /\ session.sumK = 1
    /\ session.sumSuccK + session.sumFailK = 1
    /\ \E a \in AutoLoops : a.pc = "delay" /\ slider[a.mode] = 3
    /\ timer.n = 3
    /\ timer.ms = delayMs(timer.rule, 3)

\* ------------------------------------------------ the count and the rule
\* The slider of each mode lies within 1..max of the rule of the provider
\* and the model now in the form.
SliderWithinRule ==
    \A mode \in Modes :
       slider[mode] \in 1..getConcurrencyRule(currentProvider, modelSelect[mode]).max

\* The step sends the request `b` of an AUTO iteration.
IterationStarts(b) ==
    /\ b.kind = "auto" /\ b.pc = "request"
    /\ CopiesIn(b, loops') > CopiesIn(b, loops)

\* C38: whatever provider changes, model changes and slider moves happened,
\* the slider stays within the max of the rule of the provider and model
\* selected (every provider or model change sets it to the recommended value
\* of the new rule), and the forced image count N of every AUTO iteration,
\* which is the slider value, does not exceed that max when the iteration
\* starts.
ForcedCountWithinRule ==
    /\ []SliderWithinRule
    /\ [][\A b \in BagToSet(loops') :
            IterationStarts(b) =>
               /\ b.imageCount = slider[b.mode]
               /\ b.request.image_count = b.imageCount
               /\ b.imageCount <= getConcurrencyRule(currentProvider,
                                                     modelSelect[b.mode]).max]_vars

\* The session asked for two images under the Flash rule; the model was then
\* changed to Pro, whose rule has max 1, and the next iteration asks for one.
ForcedCountWithinRuleWitness ==
    /\ session.clean
    /\ session.sumK = 3
    /\ currentProvider = "google"
    /\ \E a \in RequestsInFlight :
         /\ a.kind = "auto"
         /\ modelSelect[a.mode] = Pro
         /\ a.imageCount = 1
         /\ a.imageCount = getConcurrencyRule(currentProvider, modelSelect[a.mode]).max

StoppedInFlight(i) == streams[i].stopped

\* C31: a stop() while a streamed request is in flight does not abort it:
\* the step of the stop leaves the stream open with the images it has, and
\* every image the stream delivers afterwards goes through the callback to
\* the render sink, which appends it to the feed of its mode (the oldest item
\* leaving a feed of MAX_IMAGES).
NoDataLossOnStop ==
    [][\A i \in DOMAIN streams :
         /\ (streams[i].status = "open" /\ ~StoppedInFlight(i) /\ StoppedInFlight(i)')
              => /\ streams'[i] = [streams[i] EXCEPT !.stopped = TRUE,
                                                      !.stoppedAt = streams[i].images]
                 /\ UNCHANGED <<results, arrived>>
         /\ (StoppedInFlight(i) /\ streams'[i].images # streams[i].images)
              => /\ streams'[i] = [streams[i] EXCEPT !.images = @ + 1]
                 /\ streams[i].status = "open"
                 /\ results'[streams[i].mode] =
                      appendToGallery(results[streams[i].mode],
                                      <<[task |-> i, index |-> streams[i].images + 1]>>)
                 /\ Len(results'[streams[i].mode].items) =
                      IF Len(results[streams[i].mode].items) < MAX_IMAGES
                      THEN Len(results[streams[i].mode].items) + 1 ELSE MAX_IMAGES]_vars

\* The stop came before the first image of a request for two; both images
\* arrived afterwards, while the request was still in flight, and are the
\* newest of a feed that held nineteen, which lost its oldest item.
NoDataLossOnStopWitness ==
    \E i \in DOMAIN streams :
      /\ streams[i].status = "open"
      /\ streams[i].stopped
      /\ streams[i].stoppedAt = 0
      /\ streams[i].images = 2
      /\ \E a \in RequestsInFlight : a.mark = "stopped" /\ a.imageCount = 2
      /\ results[streams[i].mode].items =
           SubSeq(Earlier(MAX_IMAGES - 1) \o ImagesOf(i, 2), 2, MAX_IMAGES + 1)

\* ------------------------------------------------ the loop after a stop
\* A loop that a stop found alive is still alive.
StoppedLoopAlive == \E a \in AutoLoops : a.mark = "stopped"

\* C33: when every request in flight is answered and every timer fires,
\* a loop that stop() found alive leads to a state where startAutoLoop has
\* returned for every loop and the loop flag of workflow.js is false, unless
\* a new start follows (the running flag is true again).
StoppedLoopExits ==
    StoppedLoopAlive ~>
       \/ AutoLoops = {} /\ ~autoLoopController.isRunning
       \/ isAutoRunning(autoState)

\* The stop came while the request was in flight; the request has been
\* answered and the stopped loop waits for its timer, both flags false.
StoppedLoopExitsWitness ==
    /\ ~isAutoRunning(autoState)
    /\ ~autoLoopController.isRunning
    /\ \E a \in AutoLoops : a.mark = "stopped" /\ a.pc = "delay"

====
